---- MODULE Spec2Model ----
(***************************************************************************)
(* Model of the thelper trainer engine (Trainer.train / Trainer.eval /     *)
(* checkpointing), of the classification training loop and of the PASCAL   *)
(* VOC detection metrics.                                                  *)
(***************************************************************************)
EXTENDS Integers, Sequences, FiniteSets, TLC

\* ------------------------------------------------------------------ bounds
MaxEpochs == 2
MaxSaveFreq == 3
TrainLen == 2
MaxSamples == 2
MaxViews == 3
MaxPreds == 2
MaxGts == 2
MaxPoints == 2
MaxCuda == 2
MaxLabels == 2
MaxEvals == 2
MaxElems == 2

\* ------------------------------------------------------- program constants
\* Python's None, for an integer-valued field that may be unset.
None == -2
\* thelper.optim.Metric.minimize / maximize: the goal tags, which the trainer
\* also uses as the starting value of monitor_best (float -inf / +inf).
MetricMinimize == -1
MetricMaximize == 2

\* The values a metric takes (strictly between the two constants above).
Vals == {0, 1}
Monitor == "accuracy"
OtherMetric == "loss_metric"
ModelConfigs == {"A", "B"}
NoConfig == "none"

\* ------------------------------------------------------- nested dictionaries
\* A Python dict (possibly nested) is the set of its leaves, each a path of
\* keys and a number.  A key is an int or a str.
IntKey(n) == [t |-> "int", i |-> n, s |-> ""]
StrKey(x) == [t |-> "str", i |-> 0, s |-> x]
Leaf(n) == {[path |-> <<>>, val |-> n]}
EmptyDict == {}
DictKeys(d) == {e.path[1] : e \in d}
DictGet(d, k) == {[path |-> Tail(e.path), val |-> e.val] : e \in {x \in d : x.path[1] = k}}
DictSet(d, k, v) ==
    {e \in d : e.path[1] # k} \cup {[path |-> <<k>> \o e.path, val |-> e.val] : e \in v}
\* {**a, **b}
DictMerge(a, b) == {e \in a : e.path[1] \notin DictKeys(b)} \cup b
LeafVal(d) == (CHOOSE e \in d : e.path = <<>>).val

\* The result dict an epoch hook returns for a phase: "<phase>/loss" and
\* "<phase>/metrics", the latter holding the monitored metric or not.
PhaseResult(phase, loss, has_monitor, v) ==
    DictSet(DictSet(EmptyDict, StrKey(phase \o "/loss"), Leaf(loss)),
            StrKey(phase \o "/metrics"),
            DictSet(EmptyDict, StrKey(IF has_monitor THEN Monitor ELSE OtherMetric), Leaf(v)))

VARIABLES
    loaders,          \* which of the train/valid/test loaders hold data
    epochs,           \* self.epochs
    save_freq,        \* self.save_freq
    monitor_goal,     \* self.monitor_goal
    monitor_best,     \* self.monitor_best
    current_epoch,    \* self.current_epoch
    current_iter,     \* self.current_iter
    optimizer_state,  \* self.optimizer_state
    optimizer,        \* self.optimizer (its state), None before train()
    outputs,          \* self.outputs
    state_dict,       \* self.model's weights
    checkpoints,      \* the numbered checkpoint files, in the order written
    ckpt_best,        \* the file ckpt.best.pth
    config_backup,    \* config.json of the save directory: its "model" entry
    pc,               \* position of the running operation
    epoch,            \* train(): the loop variable
    result,           \* train(): the epoch's result dict
    new_best,         \* train(): new_best
    ckptdata,         \* train(): the best checkpoint loaded for the test pass
    error,            \* the AssertionError / exception that ended the operation
    log,              \* the steps the running operation has taken
    wclock,           \* number of weight updates so far (names the weights)
    resumed,          \* the session was constructed from a checkpoint
    origin,           \* the file the session was constructed from
    \* --- ImageClassifTrainer._train_epoch (one epoch of the classification loop)
    cpc,              \* position in _train_epoch
    epoch_size,       \* len(loader)
    sample_idx,       \* number of samples taken from the loader
    sample,           \* the sample at hand: is its input a list, how many views, has it a label
    input_idx,        \* views of the sample forwarded so far
    iter_pred,        \* iter_pred
    iter_loss,        \* iter_loss
    epoch_loss,       \* epoch_loss
    iter,             \* iter
    grad,             \* the gradient accumulator of the optimizer's parameters
    weights,          \* the parameters, as the sum of the gradients stepped
    warned,           \* self.warned_no_shuffling_augments
    accumulated,      \* what the metrics were last given, and how many times
    ops,              \* the optimizer/backward calls made for the sample at hand
    views,            \* the model outputs of the views of the sample at hand
    counts,           \* calls so far in the epoch: zero_grad, backward, step, telemetry
    start_iter,       \* iter as _train_epoch was given it
    returned,         \* what _train_epoch returned: (epoch_loss, its divisor, iter)
    \* compute_pascalvoc_metrics
    ap_pc,            \* "idle", "called", "returned", "failed"
    pred_bboxes,      \* the predictions given
    gt_bboxes,        \* the groundtruth boxes given
    ret,              \* the dictionary returned, by class
    trace,            \* by class: the sorted predictions, the TP/FP arrays, the box picked for each
    \* one call of a function looked at alone
    call_pc,          \* "idle", "called", "returned", "failed"
    args,             \* the arguments of the call, by name
    retval,           \* what the call returned
    \* the metrics of the three phases over the epochs
    mpc,              \* "idle", "constructed", "train", "valid", "test", "eval", "done", "failed"
    metric_loaders,   \* len() of the train/valid/test loaders, 0 for no loader
    metric_epochs,    \* self.epochs
    metric_epoch,     \* the epoch of the loop in train()
    metric_idx,       \* idx: the sample the running epoch is at
    train_metrics,    \* self.train_metrics, by name
    valid_metrics,    \* self.valid_metrics, by name
    test_metrics,     \* self.test_metrics, by name
    first_accum,      \* by name, what the metric held when the epoch's first sample came
    evals             \* how many times eval() was called

trainer_vars == <<loaders, epochs, save_freq, monitor_goal, monitor_best, current_epoch,
          current_iter, optimizer_state, optimizer, outputs, state_dict, checkpoints,
          ckpt_best, config_backup, pc, epoch, result, new_best, ckptdata, error, log,
          wclock, resumed, origin>>
classif_vars == <<cpc, epoch_size, sample_idx, sample, input_idx, iter_pred, iter_loss,
          epoch_loss, iter, grad, weights, warned, accumulated, ops, views, counts, start_iter,
          returned>>
ap_vars == <<ap_pc, pred_bboxes, gt_bboxes, ret, trace>>
call_vars == <<call_pc, args, retval>>
metric_vars == <<mpc, metric_loaders, metric_epochs, metric_epoch, metric_idx, train_metrics,
          valid_metrics, test_metrics, first_accum, evals>>
vars == <<trainer_vars, classif_vars, ap_vars, call_vars, metric_vars>>

session == <<loaders, epochs, save_freq, monitor_goal>>
disk == <<checkpoints, ckpt_best>>
locals == <<epoch, result, new_best, ckptdata>>

NoCkpt == [epoch |-> None, iter |-> None, outputs |-> EmptyDict, state_dict |-> None,
           optimizer |-> None, monitor_best |-> None, config |-> NoConfig]
NoFile == [data |-> NoCkpt, live |-> <<>>]

Ev(name, e, v) == [ev |-> name, epoch |-> e, val |-> v]

\* ------------------------------------------------------------ construction
Loaders == {l \in [train : BOOLEAN, valid : BOOLEAN, test : BOOLEAN] :
                l.train \/ l.valid \/ l.test}

\* No classification epoch is running.
NoSample == [is_list |-> FALSE, nviews |-> 0, has_label |-> FALSE]
NoTensor == <<>>
ClassifIdle ==
    /\ cpc = "idle"
    /\ epoch_size = 0
    /\ sample_idx = 0
    /\ sample = NoSample
    /\ input_idx = 0
    /\ iter_pred = NoTensor
    /\ iter_loss = None
    /\ epoch_loss = 0
    /\ iter = None
    /\ grad = 0
    /\ weights = 0
    /\ warned = FALSE
    /\ accumulated = [n |-> 0, pred |-> NoTensor, loss |-> None]
    /\ ops = <<>>
    /\ views = <<>>
    /\ counts = [zero_grad |-> 0, backward |-> 0, step |-> 0, telemetry |-> 0]
    /\ start_iter = None
    /\ returned = <<>>

\* The variables of the parts that a trainer operation does not touch.
others == <<classif_vars, ap_vars, call_vars, metric_vars>>

\* Trainer.__init__, no checkpoint given.
TrainerInit ==
    /\ loaders \in Loaders
    /\ epochs \in (IF loaders.train THEN 1..MaxEpochs ELSE {1})
    /\ save_freq \in 1..MaxSaveFreq
    /\ monitor_goal \in {MetricMinimize, MetricMaximize}
    /\ monitor_best = (IF monitor_goal = MetricMinimize THEN MetricMaximize ELSE MetricMinimize)
    /\ current_epoch = 0
    /\ current_iter = 0
    /\ optimizer_state = None
    /\ optimizer = None
    /\ outputs = EmptyDict
    /\ state_dict = 0
    /\ checkpoints = <<>>
    /\ ckpt_best = NoFile
    /\ config_backup = "A"
    /\ pc = "constructed"
    /\ epoch = 0
    /\ result = EmptyDict
    /\ new_best = FALSE
    /\ ckptdata = NoCkpt
    /\ error = ""
    /\ log = <<>>
    /\ wclock = 0
    /\ resumed = FALSE
    /\ origin = NoFile

APIdle ==
    /\ ap_pc = "idle"
    /\ pred_bboxes = <<>>
    /\ gt_bboxes = <<>>
    /\ ret = <<>>
    /\ trace = <<>>

CallIdle ==
    /\ call_pc = "idle"
    /\ args = <<>>
    /\ retval = <<>>

MetricsIdle ==
    /\ mpc = "idle"
    /\ metric_loaders = <<>>
    /\ metric_epochs = 0
    /\ metric_epoch = 0
    /\ metric_idx = 0
    /\ train_metrics = <<>>
    /\ valid_metrics = <<>>
    /\ test_metrics = <<>>
    /\ first_accum = <<>>
    /\ evals = 0

Init == TrainerInit /\ ClassifIdle /\ APIdle /\ CallIdle /\ MetricsIdle

\* The files a session can be resumed from.
Files == {checkpoints[i] : i \in 1..Len(checkpoints)} \cup ({ckpt_best} \ {NoFile})

\* Trainer.__init__ with ckptdata: a new session on the same save directory,
\* after the previous one ended.  The command line rewrites config.json first.
Resume(f, m) ==
    /\ pc \in {"done", "failed"}
    /\ ~resumed
    /\ f \in Files
    /\ config_backup' = m
    /\ monitor_best' = f.data.monitor_best
    /\ state_dict' = f.data.state_dict
    /\ optimizer_state' = f.data.optimizer
    /\ current_iter' = f.data.iter
    /\ current_epoch' = f.data.epoch
    /\ outputs' = f.data.outputs
    /\ optimizer' = None
    /\ pc' = "constructed"
    /\ epoch' = 0
    /\ result' = EmptyDict
    /\ new_best' = FALSE
    /\ ckptdata' = NoCkpt
    /\ error' = ""
    /\ log' = <<>>
    /\ resumed' = TRUE
    /\ origin' = f
    /\ UNCHANGED <<others, session, disk, wclock>>

\* ------------------------------------------------------------------ train()
Fail(msg) ==
    /\ pc' = "failed"
    /\ error' = msg

\* mutant: the loop starts at the checkpoint's own epoch
StartEpochMut == current_epoch

\* start_epoch = self.current_epoch + 1
StartEpoch == current_epoch + 1

\* train(): the loader check, the model upload, the optimizer (re)creation.
TrainBegin ==
    /\ pc = "constructed"
    /\ log' = <<Ev("begin", current_epoch, monitor_best)>>
    /\ IF ~loaders.train
       THEN /\ Fail("missing training data")
            /\ UNCHANGED <<optimizer, epoch>>
       ELSE /\ optimizer' = (IF optimizer_state # None THEN optimizer_state ELSE 0)
            /\ epoch' = StartEpoch
            /\ pc' = "loop"
            /\ UNCHANGED error
    /\ UNCHANGED <<others, session, disk, monitor_best, current_epoch, current_iter, optimizer_state,
                   outputs, state_dict, config_backup, result, new_best, ckptdata, wclock,
                   resumed, origin>>

\* for epoch in range(start_epoch, self.epochs + 1): the scheduler step.
LoopHead ==
    /\ pc = "loop"
    /\ IF epoch <= epochs
       THEN /\ pc' = "train_epoch"
            /\ log' = Append(log, Ev("sched", epoch - 1, None))
       ELSE /\ pc' = "loop_done"
            /\ log' = log
    /\ UNCHANGED <<others, session, disk, monitor_best, current_epoch, current_iter, optimizer_state,
                   optimizer, outputs, state_dict, config_backup, locals, error, wclock,
                   resumed, origin>>

\* mutant: the counter moves by the number of views of the sample
NextIterMut(it) == IF it # None THEN it + Len(views) ELSE None

\* if iter is not None: iter += 1
NextIter(it) == IF it # None THEN it + 1 ELSE None

\* the counter after the n samples of a loader
RECURSIVE IterAfter(_, _)
IterAfter(it, n) == IF n = 0 THEN it ELSE IterAfter(NextIter(it), n - 1)

\* result, self.current_iter = self._train_epoch(...)
TrainEpoch(has_monitor, v) ==
    /\ pc = "train_epoch"
    /\ result' = PhaseResult("train", 0, has_monitor, v)
    /\ current_iter' = IterAfter(current_iter, TrainLen)
    /\ optimizer' = optimizer + TrainLen
    /\ wclock' = wclock + 1
    /\ state_dict' = wclock + 1
    /\ log' = Append(log, Ev("train", epoch, IF has_monitor THEN v ELSE None))
    /\ pc' = (IF loaders.valid THEN "valid_epoch" ELSE "monitor")
    /\ UNCHANGED <<others, session, disk, monitor_best, current_epoch, optimizer_state, outputs,
                   config_backup, epoch, new_best, ckptdata, error, resumed, origin>>

\* result_valid = self._eval_epoch(..., "valid"); result = {**result, **result_valid}
ValidEpoch(has_monitor, v) ==
    /\ pc = "valid_epoch"
    /\ result' = DictMerge(result, PhaseResult("valid", 0, has_monitor, v))
    /\ log' = Append(log, Ev("valid", epoch, IF has_monitor THEN v ELSE None))
    /\ pc' = "monitor"
    /\ UNCHANGED <<others, session, disk, monitor_best, current_epoch, current_iter, optimizer_state,
                   optimizer, outputs, state_dict, config_backup, epoch, new_best, ckptdata,
                   error, wclock, resumed, origin>>

\* mutant: the training metric is monitored even when a validation loader exists
MonitorTypeKeyMut == StrKey("train/metrics")

MonitorTypeKey == StrKey(IF loaders.valid THEN "valid/metrics" ELSE "train/metrics")

\* mutant: the comparison is made in the wrong direction
IsBetterMut(value, best) ==
    \/ monitor_goal = MetricMinimize /\ value > best
    \/ monitor_goal = MetricMaximize /\ value < best

\* mutant: an equal value also counts as better
IsBetterOrEqualMut(value, best) ==
    \/ monitor_goal = MetricMinimize /\ value <= best
    \/ monitor_goal = MetricMaximize /\ value >= best

IsBetter(value, best) ==
    \/ monitor_goal = MetricMinimize /\ value < best
    \/ monitor_goal = MetricMaximize /\ value > best

\* mutant: the validation entries come first
ResultItemsMut(r) ==
    SelectSeq(<<StrKey("valid/loss"), StrKey("valid/metrics"),
                StrKey("train/loss"), StrKey("train/metrics")>>,
              LAMBDA k : k \in DictKeys(r))

\* result.items(), in insertion order.
ResultItems(r) ==
    SelectSeq(<<StrKey("train/loss"), StrKey("train/metrics"),
                StrKey("valid/loss"), StrKey("valid/metrics")>>,
              LAMBDA k : k \in DictKeys(r))

\* for key, value in result.items(): ... (one pass of the loop body per key)
RECURSIVE MonitorLoop(_, _, _)
MonitorLoop(r, keys, st) ==
    IF keys = <<>> \/ st.failed THEN st
    ELSE LET key == Head(keys)
             value == DictGet(r, key)
             isMetrics == key.s \in {"train/metrics", "valid/metrics"}
             missing == isMetrics /\ StrKey(Monitor) \notin DictKeys(value)
             v == LeafVal(DictGet(value, StrKey(Monitor)))
             better == key = MonitorTypeKey /\ IsBetter(v, st.best)
         IN IF missing THEN [st EXCEPT !.failed = TRUE]
            ELSE MonitorLoop(r, Tail(keys),
                    [best |-> IF better THEN v ELSE st.best,
                     new_best |-> st.new_best \/ better,
                     monitor_vals |-> st.monitor_vals \/ isMetrics,
                     losses |-> st.losses \/ key.s \in {"train/loss", "valid/loss"},
                     failed |-> FALSE])

\* new_best = False ... the loop over the result ... the check of its products.
MonitorUpdate ==
    /\ pc = "monitor"
    /\ LET st == MonitorLoop(result, ResultItems(result),
                    [best |-> monitor_best, new_best |-> FALSE, monitor_vals |-> FALSE,
                     losses |-> FALSE, failed |-> FALSE])
       IN IF st.failed
          THEN /\ Fail("not monitoring required variable")
               /\ monitor_best' = st.best
               /\ new_best' = st.new_best
               /\ UNCHANGED log
          ELSE /\ monitor_best' = st.best
               /\ new_best' = st.new_best
               /\ log' = Append(log, Ev("monitor", epoch, st.best))
               /\ IF ~st.monitor_vals \/ ~st.losses
                  THEN Fail("did not produce required losses & monitoring variable")
                  ELSE pc' = "store" /\ UNCHANGED error
    /\ UNCHANGED <<others, session, disk, current_epoch, current_iter, optimizer_state, optimizer,
                   outputs, state_dict, config_backup, epoch, result, ckptdata, wclock,
                   resumed, origin>>

\* self.outputs[epoch] = result
StoreOutputs ==
    /\ pc = "store"
    /\ outputs' = DictSet(outputs, IntKey(epoch), result)
    /\ log' = Append(log, Ev("store", epoch, None))
    /\ pc' = "save"
    /\ UNCHANGED <<others, session, disk, monitor_best, current_epoch, current_iter, optimizer_state,
                   optimizer, state_dict, config_backup, locals, error, wclock, resumed,
                   origin>>

\* mutant: the record holds the field current_epoch, not the epoch of the loop
CurrStateMut(e) ==
    [epoch |-> current_epoch,
     iter |-> current_iter,
     outputs |-> DictGet(outputs, IntKey(e)),
     state_dict |-> state_dict,
     optimizer |-> optimizer,
     monitor_best |-> monitor_best,
     config |-> config_backup]

\* mutant: the record holds the outputs of the epoch before
CurrStateStaleMut(e) ==
    [epoch |-> e,
     iter |-> current_iter,
     outputs |-> DictGet(outputs, IntKey(e - 1)),
     state_dict |-> state_dict,
     optimizer |-> optimizer,
     monitor_best |-> monitor_best,
     config |-> config_backup]

\* _save: the checkpoint record.
CurrState(e) ==
    [epoch |-> e,
     iter |-> current_iter,
     outputs |-> DictGet(outputs, IntKey(e)),
     state_dict |-> state_dict,
     optimizer |-> optimizer,
     monitor_best |-> monitor_best,
     config |-> config_backup]

\* The trainer's fields as they are when a checkpoint is written.
Live == <<monitor_best, current_epoch, current_iter, state_dict>>

\* mutant: only a new best is checkpointed
SaveConditionMut == new_best

\* if new_best or (epoch % self.save_freq) == 0: self._save(epoch, save_best=new_best)
SaveCondition == new_best \/ (epoch % save_freq) = 0

SaveStep ==
    /\ pc = "save"
    /\ LET f == [data |-> CurrState(epoch), live |-> Live]
       IN IF SaveCondition
          THEN /\ checkpoints' = Append(checkpoints, f)
               /\ ckpt_best' = (IF new_best THEN f ELSE ckpt_best)
               /\ log' = Append(log, Ev(IF new_best THEN "save_best" ELSE "save", epoch,
                                        current_epoch))
          ELSE /\ UNCHANGED disk
               /\ log' = Append(log, Ev("nosave", epoch, current_epoch))
    /\ epoch' = epoch + 1
    /\ pc' = "loop"
    /\ UNCHANGED <<others, session, monitor_best, current_epoch, current_iter, optimizer_state,
                   optimizer, outputs, state_dict, config_backup, result, new_best, ckptdata,
                   error, wclock, resumed, origin>>

\* self.logger.info("training done"); if self.test_loader: ...
LoopDone ==
    /\ pc = "loop_done"
    /\ pc' = (IF loaders.test THEN "test_load" ELSE "done")
    /\ log' = Append(log, Ev("training_done", None, state_dict))
    /\ UNCHANGED <<others, session, disk, monitor_best, current_epoch, current_iter, optimizer_state,
                   optimizer, outputs, state_dict, config_backup, locals, error, wclock,
                   resumed, origin>>

\* ckptdata = torch.load(filename_best, map_location="cpu")
TestLoad ==
    /\ pc = "test_load"
    /\ IF ckpt_best = NoFile
       THEN /\ Fail("FileNotFoundError")
            /\ UNCHANGED <<ckptdata, log>>
       ELSE /\ ckptdata' = ckpt_best.data
            /\ log' = Append(log, Ev("test_load", ckpt_best.data.epoch, None))
            /\ pc' = "test_check"
            /\ UNCHANGED error
    /\ UNCHANGED <<others, session, disk, monitor_best, current_epoch, current_iter, optimizer_state,
                   optimizer, outputs, state_dict, config_backup, epoch, result, new_best,
                   wclock, resumed, origin>>

\* mutant: the best checkpoint's configuration is not compared
IncompatibleMut(ck) == FALSE

\* config_backup["model"] != ckptdata["config"]["model"], when config.json exists
\* (a checkpoint written without config.json holds config None: a TypeError).
Incompatible(ck) == config_backup # NoConfig /\ config_backup # ck.config

TestCheck ==
    /\ pc = "test_check"
    /\ IF Incompatible(ckptdata)
       THEN Fail(IF ckptdata.config = NoConfig THEN "TypeError"
                 ELSE "could not load compatible best checkpoint")
       ELSE pc' = "test_swap" /\ UNCHANGED error
    /\ UNCHANGED <<others, session, disk, monitor_best, current_epoch, current_iter, optimizer_state,
                   optimizer, outputs, state_dict, config_backup, locals, log, wclock,
                   resumed, origin>>

\* mutant: the weights left by the last epoch are kept for the test
LoadStateDictMut(ck) == state_dict

\* self.model.load_state_dict(ckptdata["state_dict"])
LoadStateDict(ck) == ck.state_dict

\* self.model.load_state_dict(ckptdata["state_dict"]); the upload to the test device
TestSwap ==
    /\ pc = "test_swap"
    /\ state_dict' = LoadStateDict(ckptdata)
    /\ log' = Append(log, Ev("test_swap", ckptdata.epoch, ckptdata.state_dict))
    /\ pc' = "test_eval"
    /\ UNCHANGED <<others, session, disk, monitor_best, current_epoch, current_iter, optimizer_state,
                   optimizer, outputs, config_backup, locals, error, wclock, resumed, origin>>

\* result_test = self._eval_epoch(...); self.outputs[best_epoch] = {**outputs, **result_test}
TestEval(v) ==
    /\ pc = "test_eval"
    /\ outputs' = DictSet(outputs, IntKey(ckptdata.epoch),
                          DictMerge(ckptdata.outputs, PhaseResult("test", 0, TRUE, v)))
    /\ log' = Append(log, Ev("test", ckptdata.epoch, state_dict))
    /\ pc' = "done"
    /\ UNCHANGED <<others, session, disk, monitor_best, current_epoch, current_iter, optimizer_state,
                   optimizer, state_dict, config_backup, locals, error, wclock, resumed,
                   origin>>

\* ------------------------------------------------------------------- eval()
\* mutant: the validation loader is preferred
EvalPhaseMut == IF loaders.valid THEN "valid" ELSE "test"

\* The loader eval() evaluates: test when there is one, else valid.
EvalPhase == IF loaders.test THEN "test" ELSE "valid"

Eval(v) ==
    /\ pc = "constructed"
    /\ IF ~loaders.valid /\ ~loaders.test
       THEN /\ Fail("missing validation/test data")
            /\ log' = <<>>
            /\ UNCHANGED outputs
       ELSE /\ outputs' = DictSet(outputs, IntKey(current_epoch),
                                  PhaseResult(EvalPhase, 0, TRUE, v))
            /\ log' = <<Ev("eval_" \o EvalPhase, current_epoch, state_dict)>>
            /\ pc' = "done"
            /\ UNCHANGED error
    /\ UNCHANGED <<others, session, disk, monitor_best, current_epoch, current_iter, optimizer_state,
                   optimizer, state_dict, config_backup, locals, wclock, resumed, origin>>

Next ==
    \/ TrainBegin
    \/ LoopHead
    \/ \E h \in BOOLEAN, v \in Vals : TrainEpoch(h, v)
    \/ \E h \in BOOLEAN, v \in Vals : ValidEpoch(h, v)
    \/ MonitorUpdate
    \/ StoreOutputs
    \/ SaveStep
    \/ LoopDone
    \/ TestLoad
    \/ TestCheck
    \/ TestSwap
    \/ \E v \in Vals : TestEval(v)
    \/ \E v \in Vals : Eval(v)
    \/ \E f \in Files, m \in ModelConfigs \cup {NoConfig} : Resume(f, m)

Spec == Init /\ [][Next]_vars

\* ------------------------------------- ImageClassifTrainer._train_epoch
\* No trainer operation is running (the classification loop is looked at alone).
TrainerOff ==
    /\ loaders = [train |-> TRUE, valid |-> FALSE, test |-> FALSE]
    /\ epochs = 1
    /\ save_freq = 1
    /\ monitor_goal = MetricMaximize
    /\ monitor_best = MetricMinimize
    /\ current_epoch = 0
    /\ current_iter = 0
    /\ optimizer_state = None
    /\ optimizer = None
    /\ outputs = EmptyDict
    /\ state_dict = 0
    /\ checkpoints = <<>>
    /\ ckpt_best = NoFile
    /\ config_backup = "A"
    /\ pc = "off"
    /\ epoch = 0
    /\ result = EmptyDict
    /\ new_best = FALSE
    /\ ckptdata = NoCkpt
    /\ error = ""
    /\ log = <<>>
    /\ wclock = 0
    /\ resumed = FALSE
    /\ origin = NoFile

\* Tensor values are fixed-point numbers, in units of 1/Scale, so that the
\* division by the number of views is exact.
RECURSIVE Factorial(_)
Factorial(n) == IF n <= 1 THEN 1 ELSE n * Factorial(n - 1)
Scale == Factorial(MaxViews)

\* What the model and the loss give for one view: the prediction (two class
\* scores), the loss and the gradient its backward pass adds.
ViewOutputs ==
    {[pred |-> <<0, 2 * Scale>>, loss |-> Scale, grad |-> 1],
     [pred |-> <<3 * Scale, Scale>>, loss |-> 2 * Scale, grad |-> 2]}

\* The samples a loader can give: a plain input, or a list of 0..MaxViews
\* augmented views; with or without a label entry.
Samples ==
    {sm \in [is_list : BOOLEAN, nviews : 0..MaxViews, has_label : BOOLEAN] :
        ~sm.is_list => sm.nviews = 1}

RECURSIVE SumSeq(_)
SumSeq(sq) == IF sq = <<>> THEN 0 ELSE Head(sq) + SumSeq(Tail(sq))

TensorAdd(a, b) == [i \in DOMAIN a |-> a[i] + b[i]]

\* mutant: the sum over the views is not divided
TensorDivMut(a, n) == a

\* iter_pred /= augs_count
TensorDiv(a, n) == [i \in DOMAIN a |-> a[i] \div n]

\* _train_epoch is entered: iter is a counter or None.
ClassifInit ==
    /\ TrainerOff
    /\ MetricsIdle
    /\ APIdle
    /\ CallIdle
    /\ cpc = "begin"
    /\ epoch_size \in 0..MaxSamples
    /\ iter \in {None, 0, 3}
    /\ warned \in BOOLEAN
    /\ sample_idx = 0
    /\ sample = NoSample
    /\ input_idx = 0
    /\ iter_pred = NoTensor
    /\ iter_loss = None
    /\ epoch_loss = 0
    /\ grad = 0
    /\ weights = 0
    /\ accumulated = [n |-> 0, pred |-> NoTensor, loss |-> None]
    /\ ops = <<>>
    /\ views = <<>>
    /\ counts = [zero_grad |-> 0, backward |-> 0, step |-> 0, telemetry |-> 0]
    /\ start_iter = iter
    /\ returned = <<>>

\* if not loader: raise ...; epoch_loss = 0; epoch_size = len(loader)
ClassifBegin ==
    /\ cpc = "begin"
    /\ cpc' = (IF epoch_size = 0 THEN "failed" ELSE "loop")
    /\ UNCHANGED <<metric_vars, trainer_vars, ap_vars, call_vars, start_iter, epoch_size, sample_idx, sample, input_idx, iter_pred,
                   iter_loss, epoch_loss, iter, grad, weights, warned, accumulated, ops,
                   views, counts, returned>>

\* for sample_idx, sample in enumerate(loader): _to_tensor, optimizer.zero_grad(),
\* the label check, and for a list input the emptiness check and the warning.
FetchSample(sm) ==
    /\ cpc = "loop"
    /\ sample_idx < epoch_size
    /\ sample_idx' = sample_idx + 1
    /\ sample' = sm
    /\ grad' = 0
    /\ counts' = [counts EXCEPT !.zero_grad = @ + 1]
    /\ ops' = <<"zero_grad">>
    /\ views' = <<>>
    /\ input_idx' = 0
    /\ IF ~sm.has_label
       THEN cpc' = "failed" /\ UNCHANGED <<warned, iter_pred, iter_loss>>
       ELSE IF sm.is_list
            THEN IF sm.nviews = 0
                 THEN cpc' = "failed" /\ UNCHANGED <<warned, iter_pred, iter_loss>>
                 ELSE /\ warned' = TRUE
                      /\ iter_loss' = None
                      /\ iter_pred' = NoTensor
                      /\ cpc' = "augs"
            ELSE cpc' = "plain" /\ UNCHANGED <<warned, iter_pred, iter_loss>>
    /\ UNCHANGED <<metric_vars, trainer_vars, ap_vars, call_vars, start_iter, epoch_size, epoch_loss, iter, weights, accumulated, returned>>

\* for input_idx in range(augs_count): forward, loss, backward, running sums
AugmentedView(out) ==
    /\ cpc = "augs"
    /\ input_idx < sample.nviews
    /\ grad' = grad + out.grad
    /\ counts' = [counts EXCEPT !.backward = @ + 1]
    /\ ops' = Append(ops, "backward")
    /\ views' = Append(views, out)
    /\ IF iter_pred = NoTensor
       THEN iter_loss' = out.loss /\ iter_pred' = out.pred
       ELSE iter_loss' = iter_loss + out.loss /\ iter_pred' = TensorAdd(iter_pred, out.pred)
    /\ input_idx' = input_idx + 1
    /\ UNCHANGED <<metric_vars, trainer_vars, ap_vars, call_vars, start_iter, cpc, epoch_size, sample_idx, sample, epoch_loss, iter,
                   weights, warned, accumulated, returned>>

\* iter_loss /= augs_count; iter_pred /= augs_count
AugmentedMean ==
    /\ cpc = "augs"
    /\ input_idx = sample.nviews
    /\ iter_loss' = iter_loss \div sample.nviews
    /\ iter_pred' = TensorDiv(iter_pred, sample.nviews)
    /\ cpc' = "step"
    /\ UNCHANGED <<metric_vars, trainer_vars, ap_vars, call_vars, start_iter, epoch_size, sample_idx, sample, input_idx, epoch_loss, iter,
                   grad, weights, warned, accumulated, ops, views, counts, returned>>

\* else: iter_pred = model(...); iter_loss = loss(...); iter_loss.backward()
PlainSample(out) ==
    /\ cpc = "plain"
    /\ iter_pred' = out.pred
    /\ iter_loss' = out.loss
    /\ grad' = grad + out.grad
    /\ counts' = [counts EXCEPT !.backward = @ + 1]
    /\ ops' = Append(ops, "backward")
    /\ views' = <<out>>
    /\ cpc' = "step"
    /\ UNCHANGED <<metric_vars, trainer_vars, ap_vars, call_vars, start_iter, epoch_size, sample_idx, sample, input_idx, epoch_loss, iter,
                   weights, warned, accumulated, returned>>

\* epoch_loss += iter_loss.item(); optimizer.step(); metric.accumulate(iter_pred, ...);
\* if iter is not None: iter += 1 and the per-iteration telemetry
StepSample ==
    /\ cpc = "step"
    /\ epoch_loss' = epoch_loss + iter_loss
    /\ weights' = weights + grad
    /\ counts' = [counts EXCEPT !.step = @ + 1,
                                !.telemetry = IF iter # None THEN @ + 1 ELSE @]
    /\ ops' = Append(ops, "step")
    /\ accumulated' = [n |-> accumulated.n + 1, pred |-> iter_pred, loss |-> iter_loss]
    /\ iter' = NextIter(iter)
    /\ cpc' = "loop"
    /\ UNCHANGED <<metric_vars, trainer_vars, ap_vars, call_vars, start_iter, epoch_size, sample_idx, sample, input_idx, iter_pred,
                   iter_loss, grad, warned, views, returned>>

\* epoch_loss /= epoch_size; return epoch_loss, iter
ClassifReturn ==
    /\ cpc = "loop"
    /\ sample_idx = epoch_size
    /\ returned' = <<epoch_loss, epoch_size, iter>>
    /\ cpc' = "returned"
    /\ UNCHANGED <<metric_vars, trainer_vars, ap_vars, call_vars, start_iter, epoch_size, sample_idx, sample, input_idx, iter_pred,
                   iter_loss, epoch_loss, iter, grad, weights, warned, accumulated, ops,
                   views, counts>>

ClassifNext ==
    \/ ClassifBegin
    \/ \E sm \in Samples : FetchSample(sm)
    \/ \E out \in ViewOutputs : AugmentedView(out)
    \/ AugmentedMean
    \/ \E out \in ViewOutputs : PlainSample(out)
    \/ StepSample
    \/ ClassifReturn

SpecClassif == ClassifInit /\ [][ClassifNext]_vars

\* ------------------------------------------- compute_pascalvoc_metrics
\* Rational numbers <<numerator, denominator>> in lowest terms stand for the
\* floats; <<0, 0>> is NaN and compares false with everything.
RECURSIVE GCD(_, _)
GCD(a, b) == IF b = 0 THEN a ELSE GCD(b, a % b)
Abs(n) == IF n < 0 THEN -n ELSE n
NaN == <<0, 0>>
Rat(n, d) ==
    IF d = 0 THEN NaN
    ELSE LET g == GCD(Abs(n), Abs(d)) IN
         IF d < 0 THEN <<(-n) \div g, (-d) \div g>> ELSE <<n \div g, d \div g>>
IsNaN(a) == a[2] = 0
RatGT(a, b) == ~IsNaN(a) /\ ~IsNaN(b) /\ a[1] * b[2] > b[1] * a[2]
RatGE(a, b) == ~IsNaN(a) /\ ~IsNaN(b) /\ a[1] * b[2] >= b[1] * a[2]
RatAdd(a, b) == IF IsNaN(a) \/ IsNaN(b) THEN NaN ELSE Rat(a[1] * b[2] + b[1] * a[2], a[2] * b[2])
RatSub(a, b) == IF IsNaN(a) \/ IsNaN(b) THEN NaN ELSE Rat(a[1] * b[2] - b[1] * a[2], a[2] * b[2])
RatMul(a, b) == IF IsNaN(a) \/ IsNaN(b) THEN NaN ELSE Rat(a[1] * b[1], a[2] * b[2])
RatMax(a, b) == IF RatGT(b, a) THEN b ELSE a
Zero == <<0, 1>>
One == <<1, 1>>
NegInf == <<-1, 1>>

Min2(a, b) == IF a < b THEN a ELSE b
Max2(a, b) == IF a > b THEN a ELSE b

SeqsUpTo(S, n) == UNION {[1..k -> S] : k \in 0..n}

\* task.class_names, and the images the boxes may belong to
class_names == <<"c1", "c2">>
Images == {1, 2}
\* horizontal extents <<left, right>>; all boxes span top 0 to bottom 1.
\* IoU: P-A 3/5, P-B 2/3, Q-A 1/6, Q-B 1/2.
ExtentA == <<0, 4>>
ExtentB == <<0, 6>>
ExtentP == <<1, 5>>
ExtentQ == <<3, 6>>
iou_threshold == <<1, 2>>

BBox(sl, ext, conf) ==
    [image_id |-> sl[1], class_id |-> sl[2], left |-> ext[1], right |-> ext[2],
     top |-> 0, bottom |-> 1, include_margin |-> FALSE, confidence |-> conf]
\* the boxes the lists are drawn from: <<image, class index>>, extent and
\* confidence (in tenths); most of the variety is in image 1, class 1
PredBoxes ==
    {BBox(<<1, 1>>, ExtentP, 9), BBox(<<1, 1>>, ExtentQ, 9), BBox(<<1, 1>>, ExtentQ, 4),
     BBox(<<2, 1>>, ExtentP, 9), BBox(<<2, 1>>, ExtentQ, 4), BBox(<<1, 2>>, ExtentP, 9)}
GtBoxes ==
    {BBox(<<1, 1>>, ExtentA, None), BBox(<<1, 1>>, ExtentB, None),
     BBox(<<2, 1>>, ExtentA, None), BBox(<<1, 2>>, ExtentA, None)}

\* BoundingBox.area
Area(b) ==
    IF b.include_margin
    THEN (b.right - b.left + 1) * (b.bottom - b.top + 1)
    ELSE (b.right - b.left) * (b.bottom - b.top)

compute_iou(bbox1, bbox2) ==
    LET w0 == Min2(bbox1.right, bbox2.right) - Max2(bbox1.left, bbox2.left)
        h0 == Min2(bbox1.bottom, bbox2.bottom) - Max2(bbox1.top, bbox2.top)
        intersection_width == IF bbox1.include_margin THEN w0 + 1 ELSE w0
        intersection_height == IF bbox1.include_margin THEN h0 + 1 ELSE h0
        intersection_area == Max2(0, intersection_width) * Max2(0, intersection_height)
    IN Rat(intersection_area, Area(bbox1) + Area(bbox2) - intersection_area)

\* gt_used_flags[ci][iid], the boxes only: the groundtruth of a class in an image
CurrGtBboxes(ci, iid) ==
    SelectSeq(gt_bboxes, LAMBDA b : b.class_id = ci /\ b.image_id = iid)

\* the flags of gt_used_flags[ci] as first built: nothing used
NoneUsed(ci) == [iid \in Images |-> [k \in 1..Len(CurrGtBboxes(ci, iid)) |-> FALSE]]

\* mutant: on a tie the later box wins
BetterIouMut(iou, best) == RatGE(iou, best)

\* if iou > best_gt_bbox_iou
BetterIou(iou, best) == RatGT(iou, best)

\* the search of the best groundtruth box for a prediction; idx -1 is none
RECURSIVE BestGtUpTo(_, _, _)
BestGtUpTo(pred_bbox, gts, k) ==
    IF k = 0 THEN [idx |-> -1, iou |-> NegInf]
    ELSE LET prev == BestGtUpTo(pred_bbox, gts, k - 1)
             iou == compute_iou(pred_bbox, gts[k])
         IN IF BetterIou(iou, prev.iou) THEN [idx |-> k, iou |-> iou] ELSE prev
BestGt(pred_bbox, gts) == BestGtUpTo(pred_bbox, gts, Len(gts))

\* mutant: the box is not flagged
MarkUsedMut(flags, iid, idx) == flags

\* curr_gt_bboxes[best_gt_bbox_idx][1] = True
MarkUsed(flags, iid, idx) == [flags EXCEPT ![iid][idx] = TRUE]

\* mutant: ascending confidence
StaysBeforeMut(a, x) == a.confidence <= x.confidence

\* sorted(..., key=confidence, reverse=True) keeps a before a later x unless x is more confident
StaysBefore(a, x) == a.confidence >= x.confidence

RECURSIVE SortedByConfidence(_)
SortedByConfidence(sq) ==
    IF sq = <<>> THEN <<>>
    ELSE LET x == sq[Len(sq)]
             t == SortedByConfidence(SubSeq(sq, 1, Len(sq) - 1))
             k == Cardinality({i \in 1..Len(t) : StaysBefore(t[i], x)})
         IN SubSeq(t, 1, k) \o <<x>> \o SubSeq(t, k + 1, Len(t))

\* the loop over the sorted predictions of a class, after its first k turns
RECURSIVE MatchLoopUpTo(_, _, _)
MatchLoopUpTo(ci, sorted, k) ==
    IF k = 0
    THEN [flags |-> NoneUsed(ci), true_positives |-> <<>>, false_positives |-> <<>>,
          best |-> <<>>]
    ELSE LET st == MatchLoopUpTo(ci, sorted, k - 1)
             pred_bbox == sorted[k]
             b == BestGt(pred_bbox, CurrGtBboxes(ci, pred_bbox.image_id))
             tp == RatGE(b.iou, iou_threshold) /\ ~st.flags[pred_bbox.image_id][b.idx]
         IN [flags |-> IF tp THEN MarkUsed(st.flags, pred_bbox.image_id, b.idx)
                             ELSE st.flags,
             true_positives |-> Append(st.true_positives, IF tp THEN 1 ELSE 0),
             false_positives |-> Append(st.false_positives, IF tp THEN 0 ELSE 1),
             best |-> Append(st.best, b.idx)]
MatchLoop(ci, sorted) == MatchLoopUpTo(ci, sorted, Len(sorted))

CumSum(sq) == [i \in 1..Len(sq) |-> SumSeq(SubSeq(sq, 1, i))]

InUnit(x) == RatGE(x, Zero) /\ RatGE(One, x)

\* mutant: the precision is left as given
EnvelopeMut(padded, i) == padded[i]

\* mprecision[idx - 1] = max(mprecision[idx - 1], mprecision[idx]), from the end backwards
RECURSIVE Envelope(_, _)
Envelope(padded, i) ==
    IF i = Len(padded) THEN padded[i] ELSE RatMax(padded[i], Envelope(padded, i + 1))

\* the integral over the first k of the indices idxs
RECURSIVE Integral(_, _, _, _)
Integral(mrecall, mprecision, idxs, k) ==
    IF k = 0 THEN Zero
    ELSE RatAdd(Integral(mrecall, mprecision, idxs, k - 1),
                RatMul(RatSub(mrecall[idxs[k]], mrecall[idxs[k] - 1]), mprecision[idxs[k]]))

\* compute_average_precision, method "all-points"; ok is FALSE when an assertion fails
compute_average_precision(precision, recall) ==
    LET padded == <<Zero>> \o precision \o <<Zero>>
        n == Len(padded)
        mprecision == [i \in 1..n |-> Envelope(padded, i)]
        mrecall == <<Zero>> \o recall \o <<One>>
        idxs == SelectSeq([i \in 1..(n - 1) |-> i + 1], LAMBDA i : mrecall[i] # mrecall[i - 1])
    IN IF (\A i \in 1..Len(precision) : InUnit(precision[i]))
          /\ (\A i \in 1..Len(recall) : InUnit(recall[i]))
       THEN [ok |-> TRUE, avg_prec |-> Integral(mrecall, mprecision, idxs, Len(idxs)),
             mpre |-> SubSeq(mprecision, 1, n - 1),
             mrec |-> SubSeq(mrecall, 1, n - 1), idxs |-> idxs]
       ELSE [ok |-> FALSE]

\* one turn of the loop over the classes
ClassMetrics(ci) ==
    LET curr_pred_bboxes == SortedByConfidence(SelectSeq(pred_bboxes, LAMBDA b : b.class_id = ci))
        st == MatchLoop(ci, curr_pred_bboxes)
        true_positive_cumsum == CumSum(st.true_positives)
        false_positive_cumsum == CumSum(st.false_positives)
        npos == SumSeq([k \in 1..Cardinality(Images) |-> Len(CurrGtBboxes(ci, k))])
        recall == [i \in 1..Len(curr_pred_bboxes) |-> Rat(true_positive_cumsum[i], npos)]
        precision == [i \in 1..Len(curr_pred_bboxes) |->
                         Rat(true_positive_cumsum[i],
                             false_positive_cumsum[i] + true_positive_cumsum[i])]
        ap == compute_average_precision(precision, recall)
    IN [ok |-> ap.ok,
        trace |-> [sorted |-> curr_pred_bboxes, true_positives |-> st.true_positives,
                   false_positives |-> st.false_positives, best |-> st.best],
        entry |-> IF ap.ok
                  THEN [class_name |-> class_names[ci], iou_threshold |-> iou_threshold,
                        eval_method |-> "all-points", precision |-> precision,
                        recall |-> recall, AP |-> ap.avg_prec,
                        interpolated_precision |-> ap.mpre, interpolated_recall |-> ap.mrec,
                        total_positives |-> npos, total_TP |-> SumSeq(st.true_positives),
                        total_FP |-> SumSeq(st.false_positives)]
                  ELSE <<>>]

\* compute_pascalvoc_metrics is called with lists that pass its assertions
APInit ==
    /\ TrainerOff
    /\ MetricsIdle
    /\ ClassifIdle
    /\ CallIdle
    /\ ap_pc = "called"
    /\ pred_bboxes \in SeqsUpTo(PredBoxes, MaxPreds)
    /\ gt_bboxes \in SeqsUpTo(GtBoxes, MaxGts)
    /\ ret = <<>>
    /\ trace = <<>>

\* the whole function: every class in turn, the result returned unless an
\* assertion of compute_average_precision fails on the way
PascalVOC ==
    /\ ap_pc = "called"
    /\ LET res == [ci \in DOMAIN class_names |-> ClassMetrics(ci)] IN
       IF \A ci \in DOMAIN class_names : res[ci].ok
       THEN /\ ap_pc' = "returned"
            /\ ret' = [ci \in DOMAIN class_names |-> res[ci].entry]
            /\ trace' = [ci \in DOMAIN class_names |-> res[ci].trace]
       ELSE /\ ap_pc' = "failed"
            /\ UNCHANGED <<ret, trace>>
    /\ UNCHANGED <<metric_vars, trainer_vars, classif_vars, call_vars, pred_bboxes, gt_bboxes>>

APNext == PascalVOC

SpecAP == APInit /\ [][APNext]_vars

\* ------------------------------------------- compute_average_precision
\* the values a precision or recall list may hold; 3/2 fails the assertions
Points == {Zero, <<1, 2>>, One, <<3, 2>>}

\* compute_average_precision(precision, recall, "all-points") is called with
\* two lists of one length, as compute_pascalvoc_metrics does
AvgPrecInit ==
    /\ TrainerOff
    /\ MetricsIdle
    /\ ClassifIdle
    /\ APIdle
    /\ call_pc = "called"
    /\ \E n \in 0..MaxPoints :
          args \in [fn : {"compute_average_precision"}, precision : [1..n -> Points],
                    recall : [1..n -> Points]]
    /\ retval = <<>>

AvgPrecCall ==
    /\ call_pc = "called"
    /\ args.fn = "compute_average_precision"
    /\ LET r == compute_average_precision(args.precision, args.recall) IN
          IF r.ok
          THEN /\ call_pc' = "returned"
               /\ retval' = [avg_prec |-> r.avg_prec, mpre |-> r.mpre, mrec |-> r.mrec,
                             idxs |-> r.idxs]
          ELSE /\ call_pc' = "failed"
               /\ UNCHANGED retval
    /\ UNCHANGED <<metric_vars, trainer_vars, classif_vars, ap_vars, args>>

AvgPrecNext == AvgPrecCall

SpecAvgPrec == AvgPrecInit /\ [][AvgPrecNext]_vars

\* ------------------------------------------------------ Trainer.__init__
\* One device of a device string, by what the code can tell of its text:
\* "cpu", "cuda", "cuda:all", "cuda:<idx>", "tpu" (neither word in it) and
\* "xcuda:<idx>" (text around a "cuda:<idx>").
Tok(kind, idx) == [kind |-> kind, idx |-> idx]
CpuTok == Tok("cpu", None)
DeviceTokens ==
    {CpuTok, Tok("cuda", None), Tok("cuda:all", None), Tok("tpu", None), Tok("xcuda:N", 0)}
        \cup {Tok("cuda:N", i) : i \in -1..MaxCuda}
\* a device field: one device, or two separated by a comma
DeviceStrings == {<<t>> : t \in DeviceTokens} \cup {<<t, u>> : t, u \in DeviceTokens}
\* the field is not in the config (or is empty)
NoField == <<>>

\* "cuda" in device / "cpu" in device / "cuda:" in device
HasCuda(device) == device.kind \in {"cuda", "cuda:all", "cuda:N", "xcuda:N"}
HasCpu(device) == device.kind = "cpu"
HasCudaColon(device) == device.kind \in {"cuda:all", "cuda:N", "xcuda:N"}

\* self.default_dev
DefaultDev(cuda_dev_count) == IF cuda_dev_count > 0 THEN Tok("cuda:N", 0) ELSE CpuTok

Single(device) == [type |-> "single", dev |-> device]
DevList(idxs) == [type |-> "list", idxs |-> idxs]
NoDev == [type |-> "none"]
Raised == [type |-> "raised"]

\* if cuda_dev_idx >= cuda_dev_count
OutOfRange(cuda_dev_idx, cuda_dev_count) == cuda_dev_idx >= cuda_dev_count

\* mutant: "cuda:all" always gives the list
AllDevicesMut(cuda_dev_count) == DevList(<<>>)

\* what "cuda:all" alone resolves to
AllDevices(cuda_dev_count) ==
    IF cuda_dev_count = 1 THEN Single(DefaultDev(cuda_dev_count)) ELSE DevList(<<>>)

\* the loop over the devices of one field, from device k on
RECURSIVE DeviceLoop(_, _, _, _)
DeviceLoop(curr_devices, cuda_dev_count, k, cuda_device_idxs) ==
    IF k > Len(curr_devices) THEN DevList(cuda_device_idxs)
    ELSE LET device == curr_devices[k] IN
         IF ~HasCuda(device) /\ ~HasCpu(device) THEN Raised
         ELSE IF device.kind = "cpu"
              THEN IF Len(curr_devices) > 1 THEN Raised ELSE Single(CpuTok)
         ELSE IF device.kind = "cuda"
              THEN IF Len(curr_devices) > 1 THEN Raised
                   ELSE Single(DefaultDev(cuda_dev_count))
         ELSE IF ~HasCudaColon(device) THEN Raised
         ELSE IF device.kind = "cuda:all"
              THEN IF Len(curr_devices) > 1 THEN Raised ELSE AllDevices(cuda_dev_count)
         ELSE IF OutOfRange(device.idx, cuda_dev_count) THEN Raised
         ELSE IF Len(curr_devices) = 1 THEN Single(device)
         ELSE DeviceLoop(curr_devices, cuda_dev_count, k + 1,
                         Append(cuda_device_idxs, device.idx))

\* one turn of the loop over the three fields
ResolveDevice(field, cuda_dev_count) ==
    LET device_str == IF field = NoField THEN <<DefaultDev(cuda_dev_count)>> ELSE field IN
        IF cuda_dev_count = 0 /\ \E k \in 1..Len(device_str) : HasCuda(device_str[k])
        THEN Raised
        ELSE DeviceLoop(device_str, cuda_dev_count, 1, <<>>)

\* the config entries the constructor reads before the devices
ConfigStates == {"absent", "empty", "set"}
Configs ==
    [epochs : {None, 0, -1, 2}, optimization : ConfigStates, save_freq : {None, 2},
     loss : ConfigStates, metrics : ConfigStates,
     monitor : {"absent", "empty", Monitor, "unknown_metric"},
     goal : {MetricMinimize, MetricMaximize, None}]
ValidConfig ==
    [epochs |-> 2, optimization |-> "set", save_freq |-> None, loss |-> "set",
     metrics |-> "set", monitor |-> Monitor, goal |-> MetricMaximize]
NoSelf ==
    [epochs |-> None, save_freq |-> None, train_dev |-> NoDev, valid_dev |-> NoDev,
     test_dev |-> NoDev, monitor_goal |-> None, monitor_best |-> None]

CtorArgs(cfgs, given) ==
    [fn : {"Trainer.__init__"}, train_loader : BOOLEAN, config : cfgs,
     devices_given : {given}, cuda_dev_count : 0..MaxCuda, device_str : {NoField}]

CtorStart(cfgs, given) ==
    /\ TrainerOff
    /\ MetricsIdle
    /\ ClassifIdle
    /\ APIdle
    /\ call_pc = "called"
    /\ args \in CtorArgs(cfgs, given)
    /\ retval = [self |-> NoSelf, devices |-> <<>>]

\* the constructor is called with any config that names no device
CtorInit == CtorStart(Configs, FALSE)
\* the constructor is called with a complete config that names the devices
DevicesInit == CtorStart({ValidConfig}, TRUE)

\* mutant: no default for save_freq
ConfigSaveFreqMut(config) == config.save_freq

\* int(config["save_freq"]) if "save_freq" in config else 1
ConfigSaveFreq(config) == IF config.save_freq # None THEN config.save_freq ELSE 1

CtorFail ==
    /\ call_pc' = "failed"
    /\ UNCHANGED retval

\* the checks of epochs, optimization, loss and metrics, and save_freq
CtorConfig ==
    /\ call_pc = "called"
    /\ args.fn = "Trainer.__init__"
    /\ LET config == args.config IN
       IF config.epochs = None \/ config.epochs = 0 \/ config.epochs <= 0
       THEN CtorFail
       ELSE IF args.train_loader /\ config.optimization # "set"
       THEN CtorFail
       ELSE IF config.loss # "set" \/ config.metrics # "set"
       THEN /\ call_pc' = "failed"
            /\ retval' = [retval EXCEPT
                  !.self.epochs = IF args.train_loader THEN config.epochs ELSE 1,
                  !.self.save_freq = ConfigSaveFreq(config)]
       ELSE /\ call_pc' = "devices"
            /\ retval' = [retval EXCEPT
                  !.self.epochs = IF args.train_loader THEN config.epochs ELSE 1,
                  !.self.save_freq = ConfigSaveFreq(config)]
    /\ UNCHANGED <<metric_vars, trainer_vars, classif_vars, ap_vars, args>>

\* one field of train_device, valid_device, test_device is resolved
CtorDevice(field) ==
    /\ call_pc = "devices"
    /\ Len(retval.devices) < 3
    /\ args.devices_given \/ field = NoField
    /\ args' = [args EXCEPT !.device_str = field]
    /\ LET dev == ResolveDevice(field, args.cuda_dev_count) IN
       IF dev = Raised
       THEN CtorFail
       ELSE /\ retval' = [retval EXCEPT !.devices = Append(@, dev)]
            /\ UNCHANGED call_pc
    /\ UNCHANGED <<metric_vars, trainer_vars, classif_vars, ap_vars>>

\* self.train_dev, self.valid_dev, self.test_dev = tuple(devices); the monitor
CtorMonitor ==
    /\ call_pc = "devices"
    /\ Len(retval.devices) = 3
    /\ LET config == args.config
           assigned == [retval EXCEPT !.self.train_dev = retval.devices[1],
                                      !.self.valid_dev = retval.devices[2],
                                      !.self.test_dev = retval.devices[3]]
       IN IF config.monitor \in {"absent", "empty"} \/ config.monitor # Monitor
          THEN call_pc' = "failed" /\ retval' = assigned
          ELSE IF config.goal = MetricMinimize
          THEN /\ call_pc' = "returned"
               /\ retval' = [assigned EXCEPT !.self.monitor_goal = config.goal,
                                             !.self.monitor_best = MetricMaximize]
          ELSE IF config.goal = MetricMaximize
          THEN /\ call_pc' = "returned"
               /\ retval' = [assigned EXCEPT !.self.monitor_goal = config.goal,
                                             !.self.monitor_best = MetricMinimize]
          ELSE /\ call_pc' = "failed"
               /\ retval' = [assigned EXCEPT !.self.monitor_goal = config.goal]
    /\ UNCHANGED <<metric_vars, trainer_vars, classif_vars, ap_vars, args>>

CtorNext ==
    \/ CtorConfig
    \/ \E field \in DeviceStrings \cup {NoField} : CtorDevice(field)
    \/ CtorMonitor

SpecCtor == CtorInit /\ [][CtorNext]_vars
SpecDevices == DevicesInit /\ [][CtorNext]_vars

\* ---------------------------------------- ImageClassifTrainer._to_tensor
\* self.class_names of the classification task
ClassifClassNames == <<"cat", "dog", "bird">>
\* self.class_idxs_map[class_name]: the place of the name in the list, from 0
ClassIdx(class_name) ==
    (CHOOSE k \in 1..Len(ClassifClassNames) : ClassifClassNames[k] = class_name) - 1
KnownClass(class_name) == \E k \in 1..Len(ClassifClassNames) : ClassifClassNames[k] = class_name

\* one entry of a label: an int, a str or something else (a float)
IntLabel(i) == [type |-> "int", i |-> i, s |-> ""]
StrLabel(x) == [type |-> "str", i |-> None, s |-> x]
LabelEntries ==
    {IntLabel(i) : i \in {-1, 0, 1, 2, 3, 99}}
        \cup {StrLabel(x) : x \in {"cat", "bird", "horse"}}
        \cup {[type |-> "float", i |-> None, s |-> ""]}
\* mutant: an integer label is taken as it is, its range not looked at
EntryIdxMut(entry) ==
    IF entry.type = "int" THEN entry.i
    ELSE IF entry.type # "str" THEN -1
    ELSE IF ~KnownClass(entry.s) THEN -1
    ELSE ClassIdx(entry.s)

\* an entry is turned into its class index; -1 stands for the AssertionError
EntryIdx(entry) ==
    IF entry.type = "int"
    THEN IF entry.i < 0 \/ entry.i >= Len(ClassifClassNames) THEN -1
         ELSE ClassIdx(ClassifClassNames[entry.i + 1])
    ELSE IF entry.type # "str" THEN -1
    ELSE IF ~KnownClass(entry.s) THEN -1
    ELSE ClassIdx(entry.s)

NoLabel == [none |-> TRUE, idx |-> <<>>]

ToTensorInit ==
    /\ TrainerOff
    /\ MetricsIdle
    /\ ClassifIdle
    /\ APIdle
    /\ call_pc = "called"
    /\ args \in [fn : {"_to_tensor"}, is_dict : BOOLEAN, has_input : BOOLEAN,
                 has_label : BOOLEAN, label : SeqsUpTo(LabelEntries, MaxLabels)]
    /\ retval = <<>>

ToTensorCall ==
    /\ call_pc = "called"
    /\ args.fn = "_to_tensor"
    /\ LET label_idx == [k \in 1..Len(args.label) |-> EntryIdx(args.label[k])] IN
       IF ~args.is_dict \/ ~args.has_input
       THEN call_pc' = "failed" /\ UNCHANGED retval
       ELSE IF ~args.has_label
       THEN call_pc' = "returned" /\ retval' = [input |-> "tensor", label_idx |-> NoLabel]
       ELSE IF \E k \in 1..Len(label_idx) : label_idx[k] = -1
       THEN call_pc' = "failed" /\ UNCHANGED retval
       ELSE /\ call_pc' = "returned"
            /\ retval' = [input |-> "tensor", label_idx |-> [none |-> FALSE, idx |-> label_idx]]
    /\ UNCHANGED <<metric_vars, trainer_vars, classif_vars, ap_vars, args>>

ToTensorNext == ToTensorCall

SpecToTensor == ToTensorInit /\ [][ToTensorNext]_vars

\* ------------------------------------------------------------------ claims
SetMin(S) == CHOOSE x \in S : \A y \in S : x <= y
SetMax(S) == CHOOSE x \in S : \A y \in S : x >= y
LogIdx(name) == {i \in 1..Len(log) : log[i].ev = name}
InTrain == log # <<>> /\ log[1].ev = "begin"
MonitoredPhase == IF loaders.valid THEN "valid" ELSE "train"
\* monitor_best when train() started, and the monitored values of the epochs before e
ObservedBefore(e) ==
    {log[1].val} \cup {log[i].val : i \in {j \in LogIdx(MonitoredPhase) : log[j].epoch < e}}
Extremum(S) == IF monitor_goal = MetricMinimize THEN SetMin(S) ELSE SetMax(S)
EpochBoundary == InTrain /\ pc \in {"loop", "loop_done"}

\* C1: at every epoch boundary of train(), monitor_best is the extremum (per
\* goal) of its value when train() started and of the monitored values of the
\* epochs completed so far (validation metric when there is a validation
\* loader, training metric otherwise); the values monitor_best takes never
\* get worse.
C1_MonitorBestIsExtremum ==
    /\ EpochBoundary => monitor_best = Extremum(ObservedBefore(epoch))
    /\ InTrain =>
         \A i, j \in LogIdx("monitor") \cup {1} :
            i < j => IF monitor_goal = MetricMinimize
                     THEN log[j].val <= log[i].val ELSE log[j].val >= log[i].val

C1_Witness ==
    /\ EpochBoundary
    /\ loaders.valid
    /\ \E i, j \in LogIdx("valid") :
          /\ i < j
          /\ log[i].val = monitor_best
          /\ log[j].val # monitor_best
    /\ \E i \in LogIdx("train") : log[i].val # log[i + 1].val

\* the epoch that is at its checkpoint step is a new best: its monitored value
\* is strictly better than everything observed before it
NewBestNow ==
    LET v == log[CHOOSE i \in LogIdx(MonitoredPhase) : log[i].epoch = epoch].val
        prior == Extremum(ObservedBefore(epoch))
    IN IF monitor_goal = MetricMinimize THEN v < prior ELSE v > prior

\* C2: at the end of epoch e a numbered checkpoint (recording epoch e) is
\* written iff e is a new best (strictly better) or e mod save_freq = 0; the
\* 'best' file is overwritten iff e is a new best, with that same record.
C2_CheckpointPolicy ==
    [][pc = "save" =>
        /\ (checkpoints' # checkpoints) <=> (NewBestNow \/ epoch % save_freq = 0)
        /\ checkpoints' # checkpoints =>
              /\ Len(checkpoints') = Len(checkpoints) + 1
              /\ SubSeq(checkpoints', 1, Len(checkpoints)) = checkpoints
              /\ checkpoints'[Len(checkpoints')].data.epoch = epoch
        /\ (ckpt_best' # ckpt_best) <=> NewBestNow
        /\ NewBestNow => ckpt_best' = checkpoints'[Len(checkpoints')]
    ]_vars

C2_Witness ==
    /\ InTrain
    /\ LogIdx("nosave") # {}
    /\ checkpoints # <<>>
    /\ save_freq > 1

TrainLog == SelectSeq(log, LAMBDA e : e.ev = "train")
ResumeEpoch == IF resumed THEN origin.data.epoch ELSE 0
AfterLoop == pc \in {"loop_done", "test_load", "test_check", "test_swap", "test_eval", "done"}

\* C3: train() on a trainer resumed from a checkpoint of epoch k (k = 0 for a
\* fresh trainer) runs the epochs k+1, k+2, ... in increasing order, each once,
\* and when its loop ends it has run exactly k+1 .. epochs (none if k >= epochs).
C3_EpochsRun ==
    InTrain =>
        /\ \A i \in 1..Len(TrainLog) : TrainLog[i].epoch = ResumeEpoch + i
        /\ \A i \in 1..Len(TrainLog) : TrainLog[i].epoch <= epochs
        /\ AfterLoop =>
              Len(TrainLog) = (IF epochs > ResumeEpoch THEN epochs - ResumeEpoch ELSE 0)

C3_Witness ==
    /\ InTrain
    /\ resumed
    /\ pc = "done"
    /\ origin.data.epoch >= 1
    /\ TrainLog # <<>>

\* C4 (as claimed): a trainer constructed from a checkpoint has monitor_best,
\* current_epoch, current_iter and the weights that the saving trainer had
\* when it wrote the checkpoint.
C4_RoundTrip == (resumed /\ pc = "constructed") => Live = origin.live

LoopEndWeights == log[CHOOSE i \in LogIdx("training_done") : TRUE].val

\* C5: in the final test pass, when config.json's model configuration differs
\* from the one recorded in the best checkpoint, train() fails before the
\* checkpoint's weights are swapped in and before any test evaluation; the
\* weights stay those the last training epoch left.
C5_IncompatibleBeforeSwap ==
    (InTrain /\ ckptdata # NoCkpt /\ config_backup # NoConfig /\ ckptdata.config # config_backup) =>
        /\ pc \in {"test_check", "failed"}
        /\ LogIdx("test_swap") = {}
        /\ LogIdx("test") = {}
        /\ state_dict = LoopEndWeights

C5_Witness ==
    /\ InTrain
    /\ pc = "failed"
    /\ error = "could not load compatible best checkpoint"
    /\ TrainLog # <<>>
    /\ state_dict # ckptdata.state_dict

\* C6: eval() fails when there is neither a validation nor a test loader;
\* otherwise it runs one evaluation pass, on the test loader when there is one
\* and on the validation loader only when there is no test loader, stores the
\* result under outputs[current_epoch], and leaves monitor_best, current_epoch,
\* current_iter, the optimizer, its saved state and the checkpoint files alone.
C6_EvalFrame ==
    [][(pc = "constructed" /\ (pc' = "done" \/ error' = "missing validation/test data")) =>
        /\ (~loaders.valid /\ ~loaders.test) <=> pc' = "failed"
        /\ pc' = "done" =>
              LET phase == IF loaders.test THEN "test" ELSE "valid"
              IN /\ Len(log') = 1
                 /\ log'[1].ev = "eval_" \o phase
                 /\ log'[1].epoch = current_epoch
                 /\ DictKeys(DictGet(outputs', IntKey(current_epoch))) =
                        {StrKey(phase \o "/loss"), StrKey(phase \o "/metrics")}
                 /\ \A k \in DictKeys(outputs) \ {IntKey(current_epoch)} :
                        DictGet(outputs', k) = DictGet(outputs, k)
        /\ UNCHANGED <<monitor_best, current_epoch, current_iter, optimizer, optimizer_state,
                       checkpoints, ckpt_best, state_dict>>
    ]_vars

C6_Witness ==
    /\ pc = "done"
    /\ log # <<>>
    /\ log[1].ev = "eval_test"
    /\ loaders.valid
    /\ resumed
    /\ checkpoints # <<>>

ViewGrads == [k \in 1..Len(views) |-> views[k].grad]
ViewLosses == [k \in 1..Len(views) |-> views[k].loss]
ViewPreds(i) == [k \in 1..Len(views) |-> views[k].pred[i]]
ViewCount == IF sample.is_list THEN sample.nviews ELSE 1
Repeat(x, n) == [i \in 1..n |-> x]

\* C7: in the classification _train_epoch every sample (plain, or of n >= 1
\* views) gets one zero_grad, then one backward per view, then one optimizer
\* step, in that order, the gradients of all its views accumulated for that
\* step; optimizer steps = samples; the prediction and the loss reported for a
\* multi-view sample are the element-wise mean over its views.
C7_OneStepPerSample ==
    /\ cpc \in {"plain", "augs"} =>
          /\ ops = <<"zero_grad">> \o Repeat("backward", input_idx)
          /\ counts.step = sample_idx - 1
    /\ cpc = "step" =>
          /\ ops = <<"zero_grad">> \o Repeat("backward", ViewCount)
          /\ grad = SumSeq(ViewGrads)
          /\ counts.step = sample_idx - 1
    /\ (cpc \in {"loop", "returned"} /\ sample_idx >= 1) =>
          /\ ops = <<"zero_grad">> \o Repeat("backward", ViewCount) \o <<"step">>
          /\ Len(views) = ViewCount
          /\ counts.step = sample_idx
          /\ counts.zero_grad = sample_idx
          /\ accumulated.n = sample_idx
          /\ \A i \in 1..2 :
                accumulated.pred[i] * ViewCount = SumSeq(ViewPreds(i))
          /\ accumulated.loss * ViewCount = SumSeq(ViewLosses)
    /\ cpc = "returned" => counts.step = epoch_size

C7_Witness ==
    /\ cpc = "returned"
    /\ epoch_size >= 2
    /\ sample.is_list
    /\ sample.nviews = 3
    /\ \E i, j \in 1..Len(views) : views[i] # views[j]
    /\ counts.backward > counts.step + 2

\* ---- compute_pascalvoc_metrics: what the claims speak of
Classes == DOMAIN class_names
PredIdx(ci) == 1..Len(trace[ci].sorted)
ImageOf(ci, i) == trace[ci].sorted[i].image_id
GtOfPred(ci, i) == CurrGtBboxes(ci, ImageOf(ci, i))
GtIdx(ci, i) == 1..Len(GtOfPred(ci, i))
IouWith(ci, i, k) == compute_iou(trace[ci].sorted[i], GtOfPred(ci, i)[k])
Meets(ci, i, k) == RatGE(IouWith(ci, i, k), iou_threshold)
\* box k of the prediction's image was taken by an earlier prediction
Consumed(ci, i, k) ==
    \E j \in 1..(i - 1) :
        /\ trace[ci].true_positives[j] = 1
        /\ ImageOf(ci, j) = ImageOf(ci, i)
        /\ trace[ci].best[j] = k
\* the boxes of K no other box of K beats
MaxIouIn(ci, i, K) == {k \in K : \A m \in K : RatGE(IouWith(ci, i, k), IouWith(ci, i, m))}
FirstOf(K) == CHOOSE k \in K : \A m \in K : k <= m
NumGtOfClass(ci) == Cardinality({k \in 1..Len(gt_bboxes) : gt_bboxes[k].class_id = ci})
CumTP(ci, i) == SumSeq(SubSeq(trace[ci].true_positives, 1, i))
CumFP(ci, i) == SumSeq(SubSeq(trace[ci].false_positives, 1, i))
\* the predictions of an image that meet the threshold with its only groundtruth box
MeetSingle(ci, iid) ==
    {i \in PredIdx(ci) : ImageOf(ci, i) = iid /\ Len(CurrGtBboxes(ci, iid)) = 1 /\ Meets(ci, i, 1)}

\* C8: a groundtruth box is matched by at most one prediction: the TPs of a
\* class are at most its groundtruth boxes, no two TPs took the same box, and
\* of the predictions that meet the threshold with the single box of their
\* image exactly one is a TP and every other one an FP.
C8_MatchedAtMostOnce ==
    ap_pc = "returned" =>
        \A ci \in Classes :
            /\ ret[ci].total_TP <= NumGtOfClass(ci)
            /\ \A i, j \in PredIdx(ci) :
                  (i < j /\ ImageOf(ci, i) = ImageOf(ci, j)
                   /\ trace[ci].true_positives[i] = 1 /\ trace[ci].true_positives[j] = 1)
                  => trace[ci].best[i] # trace[ci].best[j]
            /\ \A iid \in Images :
                  MeetSingle(ci, iid) # {} =>
                     /\ Cardinality({i \in MeetSingle(ci, iid) : trace[ci].true_positives[i] = 1}) = 1
                     /\ \A i \in MeetSingle(ci, iid) :
                           trace[ci].true_positives[i] + trace[ci].false_positives[i] = 1

C8_Witness ==
    /\ ap_pc = "returned"
    /\ \E ci \in Classes, iid \in Images :
          /\ Cardinality(MeetSingle(ci, iid)) = 2
          /\ \E i \in MeetSingle(ci, iid) : trace[ci].false_positives[i] = 1

CountIn(sq, b) == Cardinality({k \in 1..Len(sq) : sq[k] = b})
\* the example: one groundtruth box, a matching prediction of confidence 0.9
\* and one of confidence 0.4 that does not match
ToyExample(ci) ==
    /\ NumGtOfClass(ci) = 1
    /\ Len(trace[ci].sorted) = 2
    /\ \A i \in 1..2 : Len(GtOfPred(ci, i)) = 1
    /\ trace[ci].sorted[1].confidence = 9 /\ Meets(ci, 1, 1)
    /\ trace[ci].sorted[2].confidence = 4 /\ ~Meets(ci, 2, 1)

\* C9: per class the predictions are taken by descending confidence, each is
\* exactly one of TP and FP, a TP exactly when the box of greatest IoU of its
\* image and class meets the threshold and was not consumed before;
\* precision[i] = cumulated TP / (cumulated TP + FP), recall[i] = cumulated
\* TP / groundtruth boxes of the class; the example gives TP=[1,0], FP=[0,1],
\* recall=[1,1], precision=[1,0.5].
C9_TruePositiveRule ==
    ap_pc = "returned" =>
        \A ci \in Classes :
            /\ \A b \in PredBoxes :
                  CountIn(trace[ci].sorted, b) =
                      IF b.class_id = ci THEN CountIn(pred_bboxes, b) ELSE 0
            /\ \A i, j \in PredIdx(ci) :
                  i < j => trace[ci].sorted[i].confidence >= trace[ci].sorted[j].confidence
            /\ \A i \in PredIdx(ci) :
                  /\ {trace[ci].true_positives[i], trace[ci].false_positives[i]} = {0, 1}
                  /\ trace[ci].true_positives[i] = 1 <=>
                        /\ GtIdx(ci, i) # {}
                        /\ LET g == FirstOf(MaxIouIn(ci, i, GtIdx(ci, i))) IN
                              Meets(ci, i, g) /\ ~Consumed(ci, i, g)
                  /\ ret[ci].precision[i][2] # 0
                  /\ ret[ci].precision[i][1] * (CumTP(ci, i) + CumFP(ci, i))
                        = CumTP(ci, i) * ret[ci].precision[i][2]
                  /\ ret[ci].recall[i][2] # 0
                  /\ ret[ci].recall[i][1] * NumGtOfClass(ci) = CumTP(ci, i) * ret[ci].recall[i][2]
            /\ ToyExample(ci) =>
                  /\ trace[ci].true_positives = <<1, 0>>
                  /\ trace[ci].false_positives = <<0, 1>>
                  /\ ret[ci].recall = <<One, One>>
                  /\ ret[ci].precision = <<One, <<1, 2>>>>

C9_Witness ==
    /\ ap_pc = "returned"
    /\ \E ci \in Classes : ToyExample(ci)

\* C10 as stated: the box picked for a prediction is one of greatest IoU among
\* the boxes of its image and class that no earlier prediction consumed.
C10_CandidateAmongUnused ==
    ap_pc = "returned" =>
        \A ci \in Classes : \A i \in PredIdx(ci) :
            LET unused == {k \in GtIdx(ci, i) : ~Consumed(ci, i, k)} IN
                IF unused = {} THEN trace[ci].best[i] = -1
                ELSE trace[ci].best[i] \in MaxIouIn(ci, i, unused)

\* C10: the box picked for a prediction is the first box of greatest IoU among
\* all the boxes of its image and class, consumed or not (none if there is no
\* such box).
C10_CandidateAmongAll ==
    ap_pc = "returned" =>
        \A ci \in Classes : \A i \in PredIdx(ci) :
            IF GtIdx(ci, i) = {} THEN trace[ci].best[i] = -1
            ELSE trace[ci].best[i] = FirstOf(MaxIouIn(ci, i, GtIdx(ci, i)))

C10_Witness ==
    /\ ap_pc = "returned"
    /\ \E ci \in Classes : \E i \in PredIdx(ci) :
          /\ trace[ci].best[i] \in GtIdx(ci, i)
          /\ Consumed(ci, i, trace[ci].best[i])
          /\ trace[ci].false_positives[i] = 1
          /\ \E k \in GtIdx(ci, i) : ~Consumed(ci, i, k) /\ Meets(ci, i, k)

\* ---- compute_average_precision: what the claim speaks of
RECURSIVE RatSumSeq(_)
RatSumSeq(sq) == IF sq = <<>> THEN Zero ELSE RatAdd(Head(sq), RatSumSeq(Tail(sq)))
RatMaxOf(S) == CHOOSE x \in S : \A y \in S : RatGE(x, y)
AvgPrecReturned == call_pc = "returned" /\ args.fn = "compute_average_precision"
\* the recall padded with 0 and 1, and the interpolated precision with its
\* padding: position k + 1 stands for point k
PaddedRecall == <<Zero>> \o args.recall \o <<One>>
Interpolated == retval.mpre \o <<Zero>>
AreaTerms ==
    [k \in 1..(Len(args.recall) + 1) |->
        IF PaddedRecall[k + 1] # PaddedRecall[k]
        THEN RatMul(RatSub(PaddedRecall[k + 1], PaddedRecall[k]), Interpolated[k + 1])
        ELSE Zero]
NonDecreasing(sq) == \A i, j \in 1..Len(sq) : i < j => RatGE(sq[j], sq[i])

\* C11: with "all-points" every precision point is replaced by the greatest of
\* itself and the later points (so the interpolated precision never
\* increases), the result is the sum over the positions where the padded
\* recall changes of recall delta times interpolated precision; it is 1 for
\* precision [1,1] and recall [0.5,1]; it lies in [0,1] when the recall never
\* decreases.
C11_AllPoints ==
    AvgPrecReturned =>
        /\ \A i \in 1..Len(args.precision) :
              retval.mpre[i + 1] =
                  RatMaxOf({args.precision[j] : j \in i..Len(args.precision)})
        /\ \A i, j \in 2..Len(retval.mpre) : i < j => RatGE(retval.mpre[i], retval.mpre[j])
        /\ retval.avg_prec = RatSumSeq(AreaTerms)
        /\ (args.precision = <<One, One>> /\ args.recall = << <<1, 2>>, One>>)
              => retval.avg_prec = One
        /\ NonDecreasing(args.recall) => InUnit(retval.avg_prec)

C11_Witness ==
    /\ AvgPrecReturned
    /\ args.precision = <<One, One>>
    /\ args.recall = << <<1, 2>>, One>>
    /\ retval.avg_prec = One

\* ---- Trainer.__init__: what the claims speak of
CtorCall == args.fn = "Trainer.__init__"
CudaCount == args.cuda_dev_count
\* a field was resolved and its device stored
FieldResolved == CtorCall /\ call_pc \in {"devices", "returned"} /\ Len(retval.devices) >= 1
\* the constructor failed in the loop over the device fields
FieldFailed ==
    /\ CtorCall
    /\ call_pc = "failed"
    /\ args.config.loss = "set" /\ args.config.metrics = "set"
    /\ retval.self.epochs # None
    /\ retval.self.train_dev = NoDev
LastDev == retval.devices[Len(retval.devices)]
InRange(i) == 0 <= i /\ i < CudaCount
Cuda(i) == Tok("cuda:N", i)
\* the forms of a device string C12 lists, where an accelerator exists if one is asked for
Listed(f) ==
    \/ f = NoField
    \/ f = <<CpuTok>>
    \/ f = <<Tok("cuda", None)>> /\ CudaCount > 0
    \/ f = <<Tok("cuda:all", None)>> /\ CudaCount > 0
    \/ /\ f # <<>>
       /\ \A k \in 1..Len(f) : f[k].kind = "cuda:N" /\ InRange(f[k].idx)

\* C12: "cpu" alone gives the CPU; "cuda" alone the default accelerator;
\* "cuda:i" alone, i in range, that accelerator; "cuda:all" alone the empty
\* list with several accelerators and the default one with exactly one; a list
\* of in-range indices the list of the indices in order; no field the default
\* device.
C12_DeviceResolution ==
    /\ FieldResolved =>
          LET f == args.device_str IN
             /\ f = <<CpuTok>> => LastDev = Single(CpuTok)
             /\ f = <<Tok("cuda", None)>> => LastDev = Single(Cuda(0))
             /\ \A i \in 0..MaxCuda :
                   (f = <<Cuda(i)>> /\ InRange(i)) => LastDev = Single(Cuda(i))
             /\ f = <<Tok("cuda:all", None)>> =>
                   /\ CudaCount > 1 => LastDev = DevList(<<>>)
                   /\ CudaCount = 1 => LastDev = Single(Cuda(0))
             /\ \A i, j \in 0..MaxCuda :
                   (f = <<Cuda(i), Cuda(j)>> /\ InRange(i) /\ InRange(j))
                      => LastDev = DevList(<<i, j>>)
             /\ f = NoField =>
                   LastDev = Single(IF CudaCount > 0 THEN Cuda(0) ELSE CpuTok)
    /\ FieldFailed => ~Listed(args.device_str)

C12_Witness ==
    /\ FieldResolved
    /\ call_pc = "returned"
    /\ args.device_str = <<Cuda(0), Cuda(1)>>
    /\ retval.self.test_dev = DevList(<<0, 1>>)
    /\ retval.self.train_dev = DevList(<<>>)

\* the device strings C13 lists
Refused(f) ==
    \/ CudaCount = 0 /\ \E k \in 1..Len(f) : f[k].kind \in {"cuda", "cuda:all", "cuda:N"}
    \/ \E k \in 1..Len(f) : f[k].kind = "cuda:N" /\ ~InRange(f[k].idx)
    \/ Len(f) > 1 /\ \E k \in 1..Len(f) : f[k].kind \in {"cpu", "cuda", "cuda:all"}
    \/ \E k \in 1..Len(f) : f[k].kind \notin {"cpu", "cuda", "cuda:all", "cuda:N"}

\* C13: construction fails, and assigns no device, when a field asks for an
\* accelerator and there is none, names an index out of range, joins "cpu",
\* "cuda" or "cuda:all" with other devices, or holds an unknown device.
C13_DeviceErrors ==
    (CtorCall /\ call_pc # "called" /\ Refused(args.device_str)) =>
        /\ call_pc = "failed"
        /\ retval.self.train_dev = NoDev
        /\ retval.self.valid_dev = NoDev
        /\ retval.self.test_dev = NoDev

AssignmentOK(d) ==
    /\ d.type = "single" =>
          \/ d.dev.kind = "cpu"
          \/ d.dev.kind \in {"cuda:N", "xcuda:N"} /\ InRange(d.dev.idx)
    /\ d.type = "list" => \A k \in 1..Len(d.idxs) : InRange(d.idxs[k])

\* C14: after a successful construction every index of a device assignment is
\* in range, 0 <= i < accelerator count, and an assignment is the CPU alone
\* or accelerators only.
C14_DeviceInvariant ==
    (CtorCall /\ call_pc = "returned") =>
        /\ AssignmentOK(retval.self.train_dev)
        /\ AssignmentOK(retval.self.valid_dev)
        /\ AssignmentOK(retval.self.test_dev)

\* the configs C17 lists
Incomplete(config, train_loader) ==
    \/ config.epochs \in {None, 0}
    \/ config.loss # "set"
    \/ config.metrics # "set"
    \/ config.monitor \in {"absent", "empty"}
    \/ train_loader /\ config.optimization # "set"
    \/ config.monitor = "unknown_metric"
    \/ config.goal \notin {MetricMinimize, MetricMaximize}

\* C17: construction fails when epochs, loss, metrics or monitor is missing
\* or empty, when optimization is missing and there is a training loader, when
\* the monitor is no configured metric, or when its goal is neither minimize
\* nor maximize; without a training loader optimization is not needed and the
\* epoch count is 1; an absent save_freq counts as 1, so every epoch is
\* checkpointed.
C17_ConstructionErrors ==
    CtorCall =>
        /\ Incomplete(args.config, args.train_loader) => call_pc # "returned"
        /\ (call_pc = "failed" /\ args.config.epochs > 0)
              => Incomplete(args.config, args.train_loader)
        /\ call_pc = "returned" =>
              /\ ~args.train_loader => retval.self.epochs = 1
              /\ args.train_loader => retval.self.epochs = args.config.epochs
              /\ args.config.save_freq = None =>
                    /\ retval.self.save_freq = 1
                    /\ \A e \in 1..retval.self.epochs : e % retval.self.save_freq = 0

C17_Witness ==
    /\ CtorCall
    /\ call_pc = "returned"
    /\ ~args.train_loader
    /\ args.config.optimization = "absent"
    /\ args.config.save_freq = None
    /\ retval.self.epochs = 1
    /\ retval.self.save_freq = 1

\* ---- _to_tensor: what the claim speaks of
ToTensorDone == args.fn = "_to_tensor" /\ call_pc # "called"
Place(x) == CHOOSE k \in 0..(Len(ClassifClassNames) - 1) : ClassifClassNames[k + 1] = x
BadLabel(entry) ==
    \/ entry.type = "int" /\ (entry.i < 0 \/ entry.i >= Len(ClassifClassNames))
    \/ entry.type = "str" /\ \A k \in 1..Len(ClassifClassNames) : ClassifClassNames[k] # entry.s

\* C15: _to_tensor gives a string label its index in the class table and an
\* integer label i, 0 <= i < number of classes, the table index of
\* class_names[i]; with an integer label out of that range (99) or a string
\* label that is no class name it fails and returns no label tensor.
C15_LabelMapping ==
    ToTensorDone =>
        /\ (call_pc = "returned" /\ args.has_label) =>
              /\ ~retval.label_idx.none
              /\ Len(retval.label_idx.idx) = Len(args.label)
              /\ \A k \in 1..Len(args.label) :
                    /\ args.label[k].type = "str" =>
                          retval.label_idx.idx[k] = Place(args.label[k].s)
                    /\ args.label[k].type = "int" =>
                          /\ 0 <= args.label[k].i /\ args.label[k].i < Len(ClassifClassNames)
                          /\ retval.label_idx.idx[k] =
                                Place(ClassifClassNames[args.label[k].i + 1])
        /\ (args.has_label /\ \E k \in 1..Len(args.label) : BadLabel(args.label[k])) =>
              /\ call_pc = "failed"
              /\ retval = <<>>

C15_Witness ==
    /\ ToTensorDone
    /\ call_pc = "returned"
    /\ args.label = <<IntLabel(2), StrLabel("cat")>>
    /\ retval.label_idx.idx = <<2, 0>>

\* ---- train(): a result without the monitored metric
MetricsKeys == {StrKey("train/metrics"), StrKey("valid/metrics")} \cap DictKeys(result)
MonitorAbsent ==
    \E key \in MetricsKeys : StrKey(Monitor) \notin DictKeys(DictGet(result, key))

MonitorFailsCleanly ==
    (pc = "monitor" /\ MonitorAbsent) =>
          /\ pc' = "failed"
          /\ monitor_best' = monitor_best
          /\ outputs' = outputs
          /\ IntKey(epoch) \notin DictKeys(outputs')
          /\ checkpoints' = checkpoints
          /\ ckpt_best' = ckpt_best
          /\ ~resumed =>
                \A i \in 1..Len(checkpoints') : checkpoints'[i].data.epoch # epoch

\* C16: when the monitored metric is absent from the metrics an epoch gave
\* (training, or validation when there is a validation loader) train() fails
\* in that epoch: monitor_best keeps its value, no outputs entry is stored and
\* no checkpoint is written for the epoch, the earlier checkpoints stay as they
\* are, and nothing happens afterwards.
C16_MonitorMissing == [][MonitorFailsCleanly]_vars

C16_Witness ==
    /\ pc = "failed"
    /\ error = "not monitoring required variable"
    /\ epoch >= 2
    /\ Len(checkpoints) >= 1
    /\ loaders.valid
    /\ StrKey(Monitor) \in DictKeys(DictGet(result, StrKey("train/metrics")))

\* ---------------------------------------------------------------------------
\* The metrics over the epochs: Trainer.train, Trainer.eval, _train_epoch and
\* _eval_epoch of train.py, looked at for what they do to the metric objects.
\* A metric is its needs_reset() answer and the number of samples it holds.
\* ---------------------------------------------------------------------------
MetricNames == {Monitor, OtherMetric}
Metric(needs_reset) == [needs_reset |-> needs_reset, count |-> 0]
\* metric.reset()
MetricReset(metric) == [metric EXCEPT !.count = 0]
\* metric.accumulate(pred, label, meta)
MetricAccumulate(metric) == [metric EXCEPT !.count = @ + 1]
MetricsAccumulate(metrics) == [n \in DOMAIN metrics |-> MetricAccumulate(metrics[n])]
MetricCounts(metrics) == [n \in DOMAIN metrics |-> metrics[n].count]

\* _train_epoch: if metric.needs_reset(): metric.reset()
TrainResetMetrics(metrics) ==
    [n \in DOMAIN metrics |->
        IF metrics[n].needs_reset THEN MetricReset(metrics[n]) ELSE metrics[n]]

\* mutant: the evaluation epoch asks needs_reset() as the training epoch does
EvalResetMetricsMut(metrics) == TrainResetMetrics(metrics)

\* _eval_epoch: metric.reset(), "we always evaluate from a clean state"
EvalResetMetrics(metrics) == [n \in DOMAIN metrics |-> MetricReset(metrics[n])]

\* After construction: the three phases hold deep copies of the loaded metrics.
MetricsInit ==
    /\ TrainerOff
    /\ ClassifIdle
    /\ APIdle
    /\ CallIdle
    /\ mpc = "constructed"
    /\ metric_loaders \in [train : 0..TrainLen, valid : 0..TrainLen, test : 0..TrainLen]
    /\ metric_epochs \in 1..MaxEpochs
    /\ metric_epoch = 0
    /\ metric_idx = 0
    /\ \E nr \in [MetricNames -> BOOLEAN] :
          /\ train_metrics = [n \in MetricNames |-> Metric(nr[n])]
          /\ valid_metrics = [n \in MetricNames |-> Metric(nr[n])]
          /\ test_metrics = [n \in MetricNames |-> Metric(nr[n])]
    /\ first_accum = [n \in MetricNames |-> 0]
    /\ evals = 0

\* train(): no training loader is an error, else the loop starts at epoch 1.
MetricsTrain ==
    /\ mpc = "constructed"
    /\ IF metric_loaders.train = 0
       THEN mpc' = "failed" /\ UNCHANGED metric_epoch
       ELSE mpc' = "train_begin" /\ metric_epoch' = 1
    /\ UNCHANGED <<trainer_vars, classif_vars, ap_vars, call_vars, metric_loaders,
                   metric_epochs, metric_idx, train_metrics, valid_metrics, test_metrics,
                   first_accum, evals>>

\* _train_epoch up to the sample loop
TrainEpochBegin ==
    /\ mpc = "train_begin"
    /\ train_metrics' = TrainResetMetrics(train_metrics)
    /\ metric_idx' = 0
    /\ mpc' = "train"
    /\ UNCHANGED <<trainer_vars, classif_vars, ap_vars, call_vars, metric_loaders,
                   metric_epochs, metric_epoch, valid_metrics, test_metrics, first_accum,
                   evals>>

\* one sample of the loop of _train_epoch
TrainEpochSample ==
    /\ mpc = "train"
    /\ metric_idx < metric_loaders.train
    /\ first_accum' = IF metric_idx = 0 THEN MetricCounts(train_metrics) ELSE first_accum
    /\ train_metrics' = MetricsAccumulate(train_metrics)
    /\ metric_idx' = metric_idx + 1
    /\ UNCHANGED <<trainer_vars, classif_vars, ap_vars, call_vars, mpc, metric_loaders,
                   metric_epochs, metric_epoch, valid_metrics, test_metrics, evals>>

\* what train() does after the last epoch
AfterEpochs == IF metric_loaders.test > 0 THEN "test_begin" ELSE "done"

\* what train() does after an epoch
AfterEpoch == IF metric_epoch < metric_epochs THEN "train_begin" ELSE AfterEpochs

\* _train_epoch returns; train() validates when there is a validation loader
TrainEpochEnd ==
    /\ mpc = "train"
    /\ metric_idx = metric_loaders.train
    /\ IF metric_loaders.valid > 0
       THEN mpc' = "valid_begin" /\ UNCHANGED metric_epoch
       ELSE /\ mpc' = AfterEpoch
            /\ metric_epoch' = IF metric_epoch < metric_epochs THEN metric_epoch + 1
                               ELSE metric_epoch
    /\ UNCHANGED <<trainer_vars, classif_vars, ap_vars, call_vars, metric_loaders,
                   metric_epochs, metric_idx, train_metrics, valid_metrics, test_metrics,
                   first_accum, evals>>

\* eval(): the test loader if there is one, else the validation loader
MetricsEval ==
    /\ mpc \in {"constructed", "done"}
    /\ evals < MaxEvals
    /\ evals' = evals + 1
    /\ metric_epoch' = 0
    /\ mpc' = IF metric_loaders.test > 0 THEN "test_begin"
              ELSE IF metric_loaders.valid > 0 THEN "valid_begin"
              ELSE "failed"
    /\ UNCHANGED <<trainer_vars, classif_vars, ap_vars, call_vars, metric_loaders,
                   metric_epochs, metric_idx, train_metrics, valid_metrics, test_metrics,
                   first_accum>>

\* _eval_epoch up to the sample loop
EvalEpochBegin(eval_type) ==
    /\ mpc = eval_type \o "_begin"
    /\ IF eval_type = "valid"
       THEN valid_metrics' = EvalResetMetrics(valid_metrics) /\ UNCHANGED test_metrics
       ELSE test_metrics' = EvalResetMetrics(test_metrics) /\ UNCHANGED valid_metrics
    /\ metric_idx' = 0
    /\ mpc' = eval_type
    /\ UNCHANGED <<trainer_vars, classif_vars, ap_vars, call_vars, metric_loaders,
                   metric_epochs, metric_epoch, train_metrics, first_accum, evals>>

\* one sample of the loop of _eval_epoch
EvalEpochSample(eval_type) ==
    /\ mpc = eval_type
    /\ metric_idx < metric_loaders[eval_type]
    /\ IF eval_type = "valid"
       THEN /\ first_accum' = IF metric_idx = 0 THEN MetricCounts(valid_metrics)
                              ELSE first_accum
            /\ valid_metrics' = MetricsAccumulate(valid_metrics)
            /\ UNCHANGED test_metrics
       ELSE /\ first_accum' = IF metric_idx = 0 THEN MetricCounts(test_metrics)
                              ELSE first_accum
            /\ test_metrics' = MetricsAccumulate(test_metrics)
            /\ UNCHANGED valid_metrics
    /\ metric_idx' = metric_idx + 1
    /\ UNCHANGED <<trainer_vars, classif_vars, ap_vars, call_vars, mpc, metric_loaders,
                   metric_epochs, metric_epoch, train_metrics, evals>>

\* _eval_epoch returns: to the epoch loop of train() (epoch >= 1), or to eval()
\* and to the end of train() which are done with it
EvalEpochEnd(eval_type) ==
    /\ mpc = eval_type
    /\ metric_idx = metric_loaders[eval_type]
    /\ IF eval_type = "valid" /\ metric_epoch >= 1
       THEN /\ mpc' = AfterEpoch
            /\ metric_epoch' = IF metric_epoch < metric_epochs THEN metric_epoch + 1
                               ELSE metric_epoch
       ELSE mpc' = "done" /\ UNCHANGED metric_epoch
    /\ UNCHANGED <<trainer_vars, classif_vars, ap_vars, call_vars, metric_loaders,
                   metric_epochs, metric_idx, train_metrics, valid_metrics, test_metrics,
                   first_accum, evals>>

MetricsNext ==
    \/ MetricsTrain
    \/ TrainEpochBegin
    \/ TrainEpochSample
    \/ TrainEpochEnd
    \/ MetricsEval
    \/ \E eval_type \in {"valid", "test"} :
          \/ EvalEpochBegin(eval_type)
          \/ EvalEpochSample(eval_type)
          \/ EvalEpochEnd(eval_type)

SpecMetrics == MetricsInit /\ [][MetricsNext]_vars

\* the epoch of the given phase has taken its first sample
FirstSampleTaken(phase) == mpc = phase /\ metric_idx >= 1

\* C18: at the first sample of a validation or test epoch every metric of the
\* phase holds nothing, whatever its needs_reset() says; at the first sample
\* of a training epoch a metric whose needs_reset() is true holds nothing and
\* one whose needs_reset() is false holds the samples of all the training
\* epochs before.
C18_MetricReset ==
    /\ FirstSampleTaken("valid") =>
          \A n \in MetricNames :
              first_accum[n] = 0 /\ valid_metrics[n].count = metric_idx
    /\ FirstSampleTaken("test") =>
          \A n \in MetricNames :
              first_accum[n] = 0 /\ test_metrics[n].count = metric_idx
    /\ FirstSampleTaken("train") =>
          \A n \in MetricNames :
              first_accum[n] = IF train_metrics[n].needs_reset THEN 0
                               ELSE (metric_epoch - 1) * metric_loaders.train

C18_Witness ==
    /\ FirstSampleTaken("valid")
    /\ metric_epoch = 2
    /\ \E n \in MetricNames :
          /\ ~valid_metrics[n].needs_reset
          /\ train_metrics[n].count = 2 * metric_loaders.train
    /\ \E n \in MetricNames :
          /\ train_metrics[n].needs_reset
          /\ train_metrics[n].count = metric_loaders.train

\* The epoch boundaries of the running train(): the log entries written when
\* an epoch is over (checkpointed or not), each holding self.current_epoch as
\* it is at that moment; the first entry of the log holds it as it was when
\* train() was called.
Boundaries == LogIdx("save") \cup LogIdx("save_best") \cup LogIdx("nosave")
EpochAtBoundary(i) == log[i].val
EpochBefore(i) ==
    LET earlier == {j \in Boundaries : j < i}
    IN IF earlier = {} THEN log[1].epoch
       ELSE EpochAtBoundary(CHOOSE j \in earlier : \A k \in earlier : k <= j)

\* C19: during train() current_epoch at the end of an epoch is greater than it
\* was at the end of the epoch before, and at the end of the first epoch
\* greater than it was when train() was called.
C19_CurrentEpochIncreases ==
    InTrain => \A i \in Boundaries : EpochAtBoundary(i) > EpochBefore(i)

\* The checkpoints of the running train(): its save entries in the log, in
\* the order they were made, and the files they wrote, which are the last
\* ones of the checkpoint directory (files of an earlier session come first).
RunSaves == LogIdx("save") \cup LogIdx("save_best")
SaveRank(i) == Cardinality({j \in RunSaves : j <= i})
FilePos(i) == Len(checkpoints) - Cardinality(RunSaves) + SaveRank(i)
FileOf(i) == checkpoints[FilePos(i)]

\* C20: of two epochs e1 < e2 that one train() run checkpointed, the file of
\* e2 records a greater epoch than the file of e1 and was written after it;
\* each file records the epoch it was written for.
C20_CheckpointOrder ==
    InTrain =>
        /\ Cardinality(RunSaves) <= Len(checkpoints)
        /\ \A i \in RunSaves : FileOf(i).data.epoch = log[i].epoch
        /\ \A i, j \in RunSaves :
              log[i].epoch < log[j].epoch =>
                  /\ FileOf(j).data.epoch > FileOf(i).data.epoch
                  /\ FilePos(j) > FilePos(i)
                  /\ j > i

C20_Witness ==
    /\ InTrain
    /\ \E i, j \in RunSaves :
          /\ log[i].epoch < log[j].epoch
          /\ FileOf(i).data.epoch = 1
          /\ FileOf(j).data.epoch = 2

\* train() has returned after its final test
TestDone == InTrain /\ pc = "done" /\ loaders.test
TestKeys == {StrKey("test/loss"), StrKey("test/metrics")}
BestOutputs == DictGet(outputs, IntKey(ckpt_best.data.epoch))

\* C21: with a test loader train() tests once, after the epoch loop and all
\* its training epochs, on the weights of the 'best' checkpoint; then
\* outputs[best_epoch], best_epoch being the epoch that checkpoint records,
\* holds every key of the checkpoint's outputs, with the checkpoint's values
\* where the test gave none, and the test keys.
C21_FinalTest ==
    /\ InTrain =>
          /\ Cardinality(LogIdx("test")) <= 1
          /\ \A i \in LogIdx("test") :
                /\ \A j \in LogIdx("train") \cup LogIdx("training_done") : j < i
                /\ log[i].val = ckpt_best.data.state_dict
                /\ log[i].epoch = ckpt_best.data.epoch
    /\ TestDone =>
          /\ Cardinality(LogIdx("test")) = 1
          /\ state_dict = ckpt_best.data.state_dict
          /\ DictKeys(BestOutputs) = DictKeys(ckpt_best.data.outputs) \cup TestKeys
          /\ \A k \in DictKeys(ckpt_best.data.outputs) \ TestKeys :
                DictGet(BestOutputs, k) = DictGet(ckpt_best.data.outputs, k)

C21_Witness ==
    /\ TestDone
    /\ ckpt_best.data.epoch < epochs
    /\ LogIdx("train") # {}
    /\ state_dict # LoopEndWeights
    /\ loaders.valid

\* ---------------------------------------------------------------------------
\* A sample without a label in the epoch functions: _train_epoch and
\* _eval_epoch of train/classif.py, and of the ImageClassifTrainer of train.py
\* with its own _to_tensor. An epoch is the list of what it did, each entry
\* with the place of its sample in the loader.
\* ---------------------------------------------------------------------------
Op(name, k) == [op |-> name, k |-> k]
Done(done) == [ok |-> TRUE, ops |-> done]
Raise(done) == [ok |-> FALSE, ops |-> done]

RECURSIVE PerView(_, _)
PerView(each, n) == IF n = 0 THEN <<>> ELSE each \o PerView(each, n - 1)

\* train.py: _to_tensor raises when the input or the label is not in the sample
\* ("if input is None or label is None"), in training and in evaluation alike.
OldSampleOps(fn, sm, k) ==
    IF ~sm.has_label THEN Raise(<<>>)
    ELSE IF fn = "_train_epoch"
    THEN Done(<<Op("zero_grad", k), Op("forward", k), Op("backward", k), Op("step", k),
                Op("accumulate", k)>>)
    ELSE Done(<<Op("forward", k), Op("accumulate", k)>>)

\* train/classif.py: _to_tensor gives label_idx = None without a label entry;
\* _train_epoch raises on it after zero_grad, _eval_epoch hands None to the metrics.
NewSampleOps(fn, sm, k) ==
    IF fn = "_train_epoch"
    THEN IF ~sm.has_label THEN Raise(<<Op("zero_grad", k)>>)
         ELSE IF sm.is_list /\ sm.nviews = 0 THEN Raise(<<Op("zero_grad", k)>>)
         ELSE Done(<<Op("zero_grad", k)>>
                   \o PerView(<<Op("forward", k), Op("backward", k)>>, sm.nviews)
                   \o <<Op("step", k), Op("accumulate", k)>>)
    ELSE IF sm.is_list /\ sm.nviews = 0 THEN Raise(<<>>)
         ELSE Done(PerView(<<Op("forward", k)>>, sm.nviews)
                   \o <<Op(IF sm.has_label THEN "accumulate" ELSE "accumulate_none", k)>>)

SampleOps(impl, fn, sm, k) ==
    IF impl = "train.py" THEN OldSampleOps(fn, sm, k) ELSE NewSampleOps(fn, sm, k)

\* for idx, sample in enumerate(loader): ...; the first error ends the epoch
RECURSIVE EpochOps(_, _, _, _)
EpochOps(impl, fn, loader, k) ==
    IF k > Len(loader) THEN Done(<<>>)
    ELSE LET head == SampleOps(impl, fn, loader[k], k) IN
         IF ~head.ok THEN head
         ELSE LET rest == EpochOps(impl, fn, loader, k + 1)
              IN [ok |-> rest.ok, ops |-> head.ops \o rest.ops]

\* The loaders given: one to MaxSamples samples; train.py knows no lists of views.
EpochInit ==
    /\ TrainerOff
    /\ MetricsIdle
    /\ ClassifIdle
    /\ APIdle
    /\ call_pc = "called"
    /\ args \in {a \in [fn : {"_train_epoch", "_eval_epoch"},
                       impl : {"train.py", "classif.py"},
                       loader : SeqsUpTo(Samples, MaxSamples) \ {<<>>}] :
                    a.impl = "train.py" => \A k \in 1..Len(a.loader) : ~a.loader[k].is_list}
    /\ retval = <<>>

EpochCall ==
    /\ call_pc = "called"
    /\ args.fn \in {"_train_epoch", "_eval_epoch"}
    /\ LET r == EpochOps(args.impl, args.fn, args.loader, 1) IN
          /\ call_pc' = IF r.ok THEN "returned" ELSE "failed"
          /\ retval' = r.ops
    /\ UNCHANGED <<metric_vars, trainer_vars, classif_vars, ap_vars, args>>

EpochNext == EpochCall

SpecEpoch == EpochInit /\ [][EpochNext]_vars

EpochCalled(fn) == args.fn = fn /\ call_pc \in {"returned", "failed"}
Unlabelled == {k \in 1..Len(args.loader) : ~args.loader[k].has_label}
NoViews == {k \in 1..Len(args.loader) : args.loader[k].is_list /\ args.loader[k].nviews = 0}
OpsOf(k) == {retval[i].op : i \in {j \in 1..Len(retval) : retval[j].k = k}}

\* C22: an evaluation epoch takes a sample without label: it does not fail on
\* it and accumulates its prediction with a None target; a training epoch
\* fails at its first sample without label, before any forward pass, backward
\* pass or optimizer step for that sample.
C22_MissingLabel ==
    /\ (EpochCalled("_eval_epoch") /\ NoViews = {}) =>
          /\ call_pc = "returned"
          /\ \A k \in Unlabelled : OpsOf(k) = {"forward", "accumulate_none"}
    /\ (EpochCalled("_train_epoch") /\ Unlabelled # {}) =>
          /\ call_pc = "failed"
          /\ \A k \in Unlabelled : OpsOf(k) \cap {"forward", "backward", "step"} = {}

\* the same, of train/classif.py alone
MissingLabelClassif == args.impl = "classif.py" => C22_MissingLabel

EntryFields ==
    {"class_name", "iou_threshold", "eval_method", "precision", "recall", "AP",
     "interpolated_precision", "interpolated_recall", "total_positives", "total_TP",
     "total_FP"}
PredsOf(ci) == SelectSeq(pred_bboxes, LAMBDA b : b.class_id = ci)
GtsOf(ci) == SelectSeq(gt_bboxes, LAMBDA b : b.class_id = ci)

\* C23: every call of compute_pascalvoc_metrics whose arguments pass its
\* assertions returns one entry for each class name of the task, with the
\* precision and recall arrays (one value per prediction of the class), the
\* AP and the counts; so it does for a class without predictions and for a
\* class with predictions and no groundtruth box.
C23_EntryPerClass ==
    ap_pc # "called" =>
        /\ ap_pc = "returned"
        /\ DOMAIN ret = DOMAIN class_names
        /\ \A ci \in DOMAIN class_names :
              /\ DOMAIN ret[ci] = EntryFields
              /\ ret[ci].class_name = class_names[ci]
              /\ Len(ret[ci].precision) = Len(PredsOf(ci))
              /\ Len(ret[ci].recall) = Len(PredsOf(ci))
              /\ ret[ci].total_positives = Len(GtsOf(ci))
              /\ ret[ci].total_TP + ret[ci].total_FP = Len(PredsOf(ci))

\* the same, of the calls where every class with a prediction has a groundtruth box
EntryPerClassWithGt ==
    (\A ci \in DOMAIN class_names : PredsOf(ci) # <<>> => GtsOf(ci) # <<>>)
        => C23_EntryPerClass

\* The trainer and the classification epoch, each in behaviours of its own.
SpecIter == (Init \/ ClassifInit) /\ [][Next \/ ClassifNext]_vars

\* the counter train() started with, and the training epochs logged before entry i
StartIter == IF resumed THEN origin.data.iter ELSE 0
TrainedBefore(i) == Cardinality({j \in LogIdx("train") : j < i})

\* C24: _train_epoch given the counter i (not None) and a loader of N samples
\* returns i + N, one more for each sample whatever its views, and has emitted
\* the telemetry of N iterations; given None it returns None and has emitted
\* none; in train() the counter returned by an epoch is the one the next
\* starts with, so the checkpoint of an epoch records the counter train()
\* started with plus the samples of all the epochs trained up to it.
C24_IterationCounter ==
    /\ cpc \in {"loop", "returned"} =>
          /\ start_iter # None =>
                /\ iter = start_iter + sample_idx
                /\ counts.telemetry = sample_idx
          /\ start_iter = None => iter = None /\ counts.telemetry = 0
    /\ cpc = "returned" =>
          returned[3] = IF start_iter = None THEN None ELSE start_iter + epoch_size
    /\ InTrain =>
          /\ \A i \in RunSaves :
                FileOf(i).data.iter = StartIter + TrainLen * TrainedBefore(i)
          /\ current_iter = StartIter + TrainLen * Cardinality(LogIdx("train"))

C24_Witness ==
    /\ cpc = "returned"
    /\ start_iter = 3
    /\ epoch_size = MaxSamples
    /\ counts.backward > counts.step

\* the trainer's part of it is reached: a resumed run that checkpointed
IterWitnessTrainer ==
    /\ InTrain
    /\ resumed
    /\ RunSaves # {}
    /\ StartIter > 0

\* ---------------------------------------------------------------------------
\* Where train() puts the model and the tensors of each pass: _upload_model,
\* _upload_tensor, and the device each epoch function of train.py picks.
\* ---------------------------------------------------------------------------
\* the devices a construction can leave in train_dev, valid_dev, test_dev
Devs ==
    {Single(CpuTok), Single(Tok("cuda:N", 0)), Single(Tok("cuda:N", 1)),
     DevList(<<>>), DevList(<<1, 0>>)}

\* _upload_model / _upload_tensor: a list goes to its first accelerator (the
\* current one, 0, for the empty list), anything else to the device itself
UploadedTo(dev) ==
    IF dev.type = "list"
    THEN IF dev.idxs = <<>> THEN Tok("cuda:N", 0) ELSE Tok("cuda:N", dev.idxs[1])
    ELSE dev.dev

Pass(phase, e, model_dev, tensor_dev) ==
    [phase |-> phase, epoch |-> e, model_dev |-> model_dev, tensor_dev |-> tensor_dev]

\* one epoch of the loop: the model is the one train() uploaded to train_dev;
\* _train_epoch takes dev = self.train_dev, _eval_epoch dev = self.valid_dev
EpochPasses(a, e) ==
    <<Pass("train", e, UploadedTo(a.train_dev), UploadedTo(a.train_dev))>>
        \o (IF a.valid_loader
            THEN <<Pass("valid", e, UploadedTo(a.train_dev), UploadedTo(a.valid_dev))>>
            ELSE <<>>)

RECURSIVE LoopPasses(_, _)
LoopPasses(a, e) == IF e > a.epochs THEN <<>> ELSE EpochPasses(a, e) \o LoopPasses(a, e + 1)

\* the final test: the model is uploaded again, to test_dev
TestPasses(a) ==
    IF a.test_loader
    THEN <<Pass("test", a.epochs, UploadedTo(a.test_dev), UploadedTo(a.test_dev))>>
    ELSE <<>>

PlacementInit ==
    /\ TrainerOff
    /\ MetricsIdle
    /\ ClassifIdle
    /\ APIdle
    /\ call_pc = "called"
    /\ args \in [fn : {"train"}, train_dev : Devs, valid_dev : Devs, test_dev : Devs,
                 valid_loader : BOOLEAN, test_loader : BOOLEAN, epochs : 1..MaxEpochs]
    /\ retval = <<>>

PlacementCall ==
    /\ call_pc = "called"
    /\ args.fn = "train"
    /\ retval' = LoopPasses(args, 1) \o TestPasses(args)
    /\ call_pc' = "returned"
    /\ UNCHANGED <<metric_vars, trainer_vars, classif_vars, ap_vars, args>>

PlacementNext == PlacementCall

SpecPlacement == PlacementInit /\ [][PlacementNext]_vars

TrainReturned == args.fn = "train" /\ call_pc = "returned"

\* C25: in every validation pass of train() the model is the one on the
\* training device and the validation tensors are put on that device, even
\* with a valid_device other than train_device; no pass has its model and its
\* tensors on different devices.
C25_SameDevice ==
    TrainReturned =>
        \A i \in 1..Len(retval) :
            /\ retval[i].model_dev = retval[i].tensor_dev
            /\ retval[i].phase = "valid" =>
                  /\ retval[i].model_dev = UploadedTo(args.train_dev)
                  /\ retval[i].tensor_dev = UploadedTo(args.train_dev)

\* the same, when valid_device leads to the device train_device leads to
SameDeviceWhenEqual ==
    UploadedTo(args.valid_dev) = UploadedTo(args.train_dev) => C25_SameDevice

\* The log entry that has to come right before entry i of a train() run, by
\* the kind of entry i; an entry of the epoch loop belongs to the epoch of the
\* one before it (the scheduler step counts epochs from 0).
SaveEvents == {"save", "save_best", "nosave"}
LoopEvents == {"sched", "train", "valid", "monitor", "store"} \cup SaveEvents
ComesAfter(i) ==
    LET prev == log[i - 1]
        e == log[i].epoch
    IN CASE log[i].ev = "sched" ->
                /\ prev.ev \in SaveEvents \cup {"begin"}
                /\ prev.ev \in SaveEvents => prev.epoch = e
         [] log[i].ev = "train" -> prev.ev = "sched" /\ prev.epoch = e - 1
         [] log[i].ev = "valid" -> prev.ev = "train" /\ prev.epoch = e /\ loaders.valid
         [] log[i].ev = "monitor" ->
                prev.ev = (IF loaders.valid THEN "valid" ELSE "train") /\ prev.epoch = e
         [] log[i].ev = "store" -> prev.ev = "monitor" /\ prev.epoch = e
         [] OTHER -> prev.ev = "store" /\ prev.epoch = e

StepOrder ==
    InTrain => \A i \in 2..Len(log) : log[i].ev \in LoopEvents => ComesAfter(i)

\* a checkpoint file is written, or the 'best' file rewritten
Writes == checkpoints' # checkpoints \/ ckpt_best' # ckpt_best

WriteBetweenEpochs ==
    Writes =>
        /\ pc = "save" /\ pc' = "loop"
        /\ log[Len(log)].ev = "store" /\ log[Len(log)].epoch = epoch
        /\ log' = Append(log, log'[Len(log')]) /\ log'[Len(log')].ev \in {"save", "save_best"}
        /\ checkpoints'[Len(checkpoints')].data.epoch = epoch
        /\ checkpoints'[Len(checkpoints')].data.outputs = result
        /\ DictGet(outputs, IntKey(epoch)) = result
        /\ epoch' = epoch + 1

\* C26: in train() each epoch goes: scheduler step, training epoch, validation
\* epoch when there is a validation loader, monitor_best update, outputs[epoch]
\* stored, checkpoint written or not; a checkpoint is written only at that
\* last step, with no training or evaluation epoch under way, it holds the
\* outputs of the epoch that just ended, and the next epoch's scheduler step
\* and training come after it.
C26_StepOrder == []StepOrder /\ [][WriteBetweenEpochs]_vars

C26_Witness ==
    /\ InTrain
    /\ loaders.valid
    /\ pc = "train_epoch"
    /\ epoch = 2
    /\ RunSaves # {}
    /\ LogIdx("nosave") = {}

\* ------------------------------------------------------- outputs after resume
EpochKeys(d) == {key \in DictKeys(d) : key.t = "int"}
\* the session has done nothing since __init__ or is inside train()'s loop:
\* neither eval() nor the final test pass has touched outputs yet
BeforeEvaluation == (log = <<>> \/ InTrain) /\ LogIdx("test") = {}

\* C27 (as claimed): in a trainer resumed from a checkpoint saved at epoch k,
\* every key of outputs is an epoch number and outputs[k] is the result that
\* the checkpoint recorded for epoch k, also after train() has added the
\* entries of further epochs.
C27_ResumedOutputs ==
    (resumed /\ BeforeEvaluation) =>
        /\ DictKeys(outputs) = EpochKeys(outputs)
        /\ DictGet(outputs, IntKey(origin.data.epoch)) = origin.data.outputs

\* What the code does instead: the restored outputs is the checkpoint's one
\* result dict, and train() adds its epoch entries next to the result's keys.
ResumedOutputsAreOneResult ==
    (resumed /\ BeforeEvaluation) =>
        /\ DictKeys(outputs) \ EpochKeys(outputs) = DictKeys(origin.data.outputs)
        /\ \A key \in DictKeys(origin.data.outputs) :
               DictGet(outputs, key) = DictGet(origin.data.outputs, key)
        /\ EpochKeys(outputs) = {IntKey(log[i].epoch) : i \in LogIdx("store")}

\* ------------------------------------------- the best file of the final test
\* train() has left its epoch loop and has a test loader
FinalTestReached == InTrain /\ loaders.test /\ LogIdx("training_done") # {}
LastBestSave == CHOOSE i \in LogIdx("save_best") : \A j \in LogIdx("save_best") : j <= i
\* the monitor_best that a checkpoint step of this run wrote (the monitor update
\* of the same epoch is two log entries before it)
BestAt(i) == log[i - 2].val
RestoredBest == log[1].val

\* C28: in a fresh session with a test loader, when train() reaches the final
\* test pass the first epoch of the run has written the best file (its value
\* is better than the starting value of monitor_best), and the data the test
\* pass reads is that of the last best file written in this train() call. In a
\* session (resumed or not) a best file is written only by an epoch whose value
\* is better than the monitor_best train() started with, so a resumed session
\* without such an epoch writes no best file before the read.
C28_BestBeforeTest ==
    /\ (~resumed /\ FinalTestReached) =>
          /\ \E i \in LogIdx("save_best") : log[i].epoch = 1
          /\ ckpt_best # NoFile
          /\ error # "FileNotFoundError"
          /\ ckpt_best.data.epoch = log[LastBestSave].epoch
          /\ ckpt_best.data.monitor_best = BestAt(LastBestSave)
          /\ LogIdx("test_load") # {} => ckptdata = ckpt_best.data
    /\ InTrain => \A i \in LogIdx("save_best") :
          /\ log[i - 2].ev = "monitor"
          /\ IsBetter(BestAt(i), RestoredBest)
    /\ (resumed /\ InTrain /\ \A i \in LogIdx("monitor") : log[i].val = RestoredBest) =>
          LogIdx("save_best") = {}

\* a fresh run of two epochs whose second epoch did not improve has tested the
\* weights of epoch 1
C28_Witness ==
    /\ ~resumed /\ FinalTestReached /\ pc = "done"
    /\ epochs = 2 /\ ckptdata.epoch = 1 /\ Cardinality(LogIdx("save_best")) = 1
    /\ Cardinality(LogIdx("monitor")) = 2

\* a resumed run of one epoch that did not improve reads the best file of the
\* earlier session
ResumedReadsOldBest ==
    /\ resumed /\ FinalTestReached /\ LogIdx("test_load") # {}
    /\ LogIdx("monitor") # {} /\ LogIdx("save_best") = {}
    /\ ckptdata = ckpt_best.data

\* ----------------------------------------------- the best file and monitor_best
MonitoredValue(e) ==
    log[CHOOSE i \in LogIdx(MonitoredPhase) : log[i].epoch = e].val
EpochsRun == {log[i].epoch : i \in LogIdx("store")}
EpochsAtBest == {e \in EpochsRun : MonitoredValue(e) = monitor_best}

\* C29: at every epoch boundary of train() after this run has written a best
\* file, the file's monitor_best is the trainer's monitor_best and its epoch is
\* the earliest epoch of the run whose monitored value equals monitor_best.
C29_BestFileCurrent ==
    (EpochBoundary /\ LogIdx("save_best") # {}) =>
        /\ ckpt_best.data.monitor_best = monitor_best
        /\ ckpt_best.data.epoch \in EpochsAtBest
        /\ \A e \in EpochsAtBest : ckpt_best.data.epoch <= e

\* the second epoch reached the value of the first and did not replace it
C29_Witness ==
    /\ EpochBoundary /\ LogIdx("save_best") # {}
    /\ EpochsAtBest = {1, 2}
    /\ ckpt_best.data.epoch = 1

\* ================================================================ TransformWrapper
\* Values handed to the wrapper: None, an image (v counts how many times the
\* wrapped operation was applied to it), a list of values, a dict of values
\* (its keys are the positions of items), and the raising of an exception.
NoneValue == [k |-> "none", v |-> 0, items |-> <<>>]
Image(n) == [k |-> "img", v |-> n, items |-> <<>>]
ListOf(s) == [k |-> "list", v |-> 0, items |-> s]
DictOf(s) == [k |-> "dict", v |-> 0, items |-> s]
Raises == [k |-> "raise", v |-> 0, items |-> <<>>]

Leaves == {NoneValue, Image(0)}
InnerLists == {ListOf(s) : s \in SeqsUpTo(Leaves, MaxElems)}
Elements == Leaves \cup InnerLists
WrapperSamples ==
    Leaves \cup {ListOf(s) : s \in SeqsUpTo(Elements, MaxElems)}
           \cup {DictOf(s) : s \in SeqsUpTo(Elements, MaxElems)}

\* probability, in tenths: below the range, 0, 0.5, 1, above the range
Probabilities == {-1, 0, 5, 10, 11}
\* round(np.random.uniform(0, 1), 1), in tenths: 0.0, 0.5 and 1.0
Rolls == {0, 5, 10}
\* one draw for the top call (0), one for each element of an unlinked call
\* (1..MaxElems) and one for each recursive call on a list element
RollKeys == 0..(2 * MaxElems)

\* if self.probability >= 1 or round(np.random.uniform(0, 1), 1) <= self.probability
Applies(roll, key) == args.probability >= 10 \/ roll[key] <= args.probability

\* if sample[idx] is not None: sample[idx] = self.operation(sample[idx], **self.params)
Operation(x) == IF x.k = "img" THEN Image(x.v + 1) ELSE x

\* self(sample[idx], force_linked_fate=True, op_seed=op_seed, in_cvts=cvts[idx])
\* on a list of images: an empty list is returned as it is, otherwise the call
\* draws again and applies the operation to every element or to none
Recursive(l, roll, key) ==
    IF l.items = <<>> THEN l
    ELSE IF Applies(roll, key)
         THEN ListOf([i \in 1..Len(l.items) |-> Operation(l.items[i])])
         ELSE l

\* if (skip_unpack or not out_list) and len(sample) == 1: sample = sample[0]
Returned(out_list, done) ==
    IF ~out_list /\ Len(done) = 1 THEN done[1] ELSE ListOf(done)

\* the branch 'if self.linked_fate or force_linked_fate' of a top-level call.
\* _unpack turns a list of one element into that element; when the element is
\* itself a list, cvts is a single flag and _pack raises.
LinkedFate(sm, roll) ==
    LET out_list == sm.k = "list"
        top == IF out_list THEN sm.items ELSE <<sm>>
        single_list == Len(top) = 1 /\ top[1].k = "list"
        unpacked == IF single_list THEN top[1].items ELSE top
        done == IF Applies(roll, 0)
                THEN [i \in 1..Len(unpacked) |->
                         IF unpacked[i].k = "list" THEN Recursive(unpacked[i], roll, i)
                         ELSE Operation(unpacked[i])]
                ELSE unpacked
    IN IF single_list THEN Raises ELSE Returned(out_list, done)

\* TransformWrapper._unpack of one element, convert_pil = False
Unpack(e) == IF e.k = "list" /\ Len(e.items) = 1 THEN e.items[1] ELSE e

\* the else branch: every element of the top array has its own draw; _unpack
\* of an empty list raises IndexError
IndependentFate(sm, roll) ==
    LET out_list == sm.k = "list"
        top == IF out_list THEN sm.items ELSE <<sm>>
        done == [i \in 1..Len(top) |->
                    LET e == Unpack(top[i])
                    IN IF ~Applies(roll, i) THEN e
                       ELSE IF e.k = "list" THEN Recursive(e, roll, MaxElems + i)
                       ELSE Operation(e)]
    IN IF \E i \in 1..Len(top) : top[i].k = "list" /\ top[i].items = <<>>
       THEN Raises
       ELSE Returned(out_list, done)

\* __call__ on a sample that is not a dict
CallArray(sm, roll) ==
    IF sm.k = "none" \/ (sm.k = "list" /\ sm.items = <<>>) THEN ListOf(<<>>)
    ELSE IF args.linked_fate THEN LinkedFate(sm, roll)
    ELSE IndependentFate(sm, roll)

Lengths(v) == IF v.k = "list" THEN Len(v.items) ELSE -1

\* __call__ on a dict sample, target_keys = None: the entries that have
\* __getitem__ are transformed together (interlaced when they are lists of one
\* length) and written back under their keys
CallDict(sm, roll) ==
    LET keys == {i \in 1..Len(sm.items) : sm.items[i].k # "none"}
        vals == SelectSeq(sm.items, LAMBDA x : x.k # "none")
        index(i) == Cardinality({j \in keys : j <= i})
        n == Lengths(vals[1])
        m == Len(vals)
        interlaced == [idx \in 1..n |-> ListOf([j \in 1..m |-> vals[j].items[idx]])]
        inter == CallArray(ListOf(interlaced), roll)
        width == IF inter.items[1].k = "list" THEN Len(inter.items[1].items) ELSE 1
        out_vals == [j \in 1..width |->
                        ListOf([idx \in 1..n |->
                                   IF inter.items[idx].k = "list"
                                   THEN inter.items[idx].items[j]
                                   ELSE inter.items[idx]])]
        plain == CallArray(ListOf(vals), roll)
        back(r) == DictOf([i \in 1..Len(sm.items) |->
                              IF i \in keys THEN r[index(i)] ELSE sm.items[i]])
    IN IF keys = {} THEN Raises
       ELSE IF n > 0 /\ \A j \in 1..m : Lengths(vals[j]) = n
            THEN IF inter = Raises \/ Len(inter.items) # n THEN Raises
                 ELSE back(out_vals)
            ELSE IF plain = Raises THEN Raises ELSE back(plain.items)

\* TransformWrapper.__call__(sample)
WrapperCallResult(sm, roll) ==
    IF sm.k = "dict" THEN CallDict(sm, roll) ELSE CallArray(sm, roll)

WrapperInit ==
    /\ TrainerOff
    /\ MetricsIdle
    /\ ClassifIdle
    /\ APIdle
    /\ call_pc = "called"
    /\ args \in [fn : {"TransformWrapper"}, probability : Probabilities,
                 linked_fate : BOOLEAN, sample : WrapperSamples]
    /\ retval = <<>>

\* TransformWrapper.__init__(operation, probability=..., linked_fate=...)
WrapperConstruct ==
    /\ call_pc = "called"
    /\ args.fn = "TransformWrapper"
    /\ call_pc' = (IF args.probability < 0 \/ args.probability > 10
                   THEN "rejected" ELSE "constructed")
    /\ UNCHANGED <<metric_vars, trainer_vars, classif_vars, ap_vars, args, retval>>

\* wrapper(sample), with the draws of np.random.uniform chosen freely
WrapperCall ==
    /\ call_pc = "constructed"
    /\ args.fn = "TransformWrapper"
    /\ \E roll \in [RollKeys -> Rolls] :
          LET r == WrapperCallResult(args.sample, roll)
          IN /\ retval' = r
             /\ call_pc' = (IF r = Raises THEN "raised" ELSE "returned")
    /\ UNCHANGED <<metric_vars, trainer_vars, classif_vars, ap_vars, args>>

WrapperNext == WrapperConstruct \/ WrapperCall

SpecWrapper == WrapperInit /\ [][WrapperNext]_vars

\* the application counts of the images of a value, in order
RECURSIVE Flat(_)
RECURSIVE FlatSeq(_)
Flat(x) == IF x.k = "img" THEN <<x.v>> ELSE FlatSeq(x.items)
FlatSeq(s) == IF s = <<>> THEN <<>> ELSE Flat(Head(s)) \o FlatSeq(Tail(s))

WrapperReturned == call_pc = "returned" /\ args.fn = "TransformWrapper"

\* C30 (as claimed): a wrapper constructed with probability 0 applies its
\* operation to no element of the sample (the images come back as they were),
\* one constructed with probability 1 applies it once to every image, and a
\* probability outside [0, 1] is rejected by the constructor.
C30_Probability ==
    /\ (WrapperReturned /\ args.probability = 0) => Flat(retval) = Flat(args.sample)
    /\ (WrapperReturned /\ args.probability = 10) =>
          Flat(retval) = [i \in 1..Len(Flat(args.sample)) |-> 1]
    /\ (args.fn = "TransformWrapper" /\ args.probability \notin 0..10) =>
          call_pc \in {"called", "rejected"}

\* What holds of probability 0: the operation is applied exactly when a draw
\* rounds to 0.0, so a returned sample has each image untouched or
\* transformed once; probability 1 and the constructor are as claimed.
ProbabilityOneAndRange ==
    /\ (WrapperReturned /\ args.probability = 0) =>
          \A i \in 1..Len(Flat(retval)) : Flat(retval)[i] \in {0, 1}
    /\ (WrapperReturned /\ args.probability = 10) =>
          Flat(retval) = [i \in 1..Len(Flat(args.sample)) |-> 1]
    /\ (args.fn = "TransformWrapper" /\ args.probability \notin 0..10) =>
          call_pc \in {"called", "rejected"}

\* a wrapper of probability 0 has returned a list whose image was transformed
ZeroProbabilityApplied ==
    /\ WrapperReturned /\ args.probability = 0
    /\ args.sample = ListOf(<<Image(0)>>)
    /\ retval = ListOf(<<Image(1)>>)

====
